---- MODULE Spec2Model ----
(***************************************************************************)
(* nigamp: the playback-completion and buffering core.                     *)
(*                                                                         *)
(* DirectSoundEngine (src/src/audio_engine.cpp) and MusicPlayer            *)
(* (src/src/main.cpp, second listing, lines 577-1244) as a system of OS    *)
(* threads that communicate through atomics and mutexes.  Every thread     *)
(* has a program counter pc[t]; one action is one atomic step of one       *)
(* thread: an atomic load or store, or a critical section that is entered  *)
(* and left without blocking in between.                                   *)
(*                                                                         *)
(* Specifications:                                                         *)
(*   EngineSpec  the engine driven by client threads and a controller      *)
(*               (the shape of the CallbackArchitecture tests);            *)
(*   Spec        the player: main thread, hotkey thread, playback thread,  *)
(*               engine drain thread, timeout thread and the wall clock;   *)
(*   SpecAuto    the player left alone (no hotkey arrives), with every     *)
(*               thread scheduled fairly;                                  *)
(*   MockSpec    the MockAudioEngine of the CallbackArchitecture tests     *)
(*               (src/unnamed/part_013), driven by test threads.           *)
(***************************************************************************)
EXTENDS Integers, Sequences, FiniteSets, TLC

(***************************************************************************)
(* Bounds of the model.                                                    *)
(***************************************************************************)
\* samples the clients of EngineSpec push per session
MaxPushed == 3
\* cap of the pending queue: a write that would exceed it waits
MaxPending == 2
\* largest chunk one write_samples call appends
MaxChunk == 1
\* capacity of the circular hardware buffer in bytes (buffer_bytes)
BufferBytes == 6
\* smallest free region a drain tick writes into, in bytes (1024 in the code)
MinWriteBytes == 2
\* engine sessions (start() calls) the controller of EngineSpec makes
MaxSessions == 2
\* the samples-processed counter saturates here
MaxProcessed == 2
\* songs in the playlist
NumSongs == 2
\* longest song duration, in clock ticks (seconds)
MaxDuration == 1
\* chunks a decoder yields before it reports end of file
DecoderChunks == 1
\* hotkey commands the user issues
MaxHotkeys == 1
\* capacity of the ALSA ring buffer in frames (buffer_size, two seconds of audio)
BufferFrames == 2
\* frames the device plays in one clock tick (format.sample_rate)
FramesPerTick == 1

(***************************************************************************)
(* Program constants.                                                      *)
(***************************************************************************)
\* sizeof(int16_t)
SampleBytes == 2
\* AudioFormat::channels
Channels == 2
COMPLETION_TIMEOUT_SECONDS == 3
\* bool m_use_duration_based_completion = true; never assigned again
m_use_duration_based_completion == TRUE
\* MusicPlayer(bool preview_mode = false)
m_preview_mode == FALSE

NoThread == "none"
Clients == {"c1", "c2"}
Threads == {"main", "hk", "pb", "eng", "to", "ctl"} \cup Clients
Songs == 1..NumSongs

VARIABLES
    pc,                      \* position of every thread
    ret,                     \* the return labels of the calls a thread is in
    crashed,                 \* the process was terminated (std::terminate / fault)
    \* ---- DirectSoundEngine::Impl
    secondary_buffer,        \* secondary_buffer != nullptr
    is_playing,
    is_paused,
    should_stop,
    pending_samples,         \* pending_samples.size()
    write_cursor,
    completion_callback,     \* "null", "handler" (the player's lambda), "test"
    eof_signaled,
    callback_fired,
    total_samples_processed,
    buffer_mutex,            \* owner of buffer_mutex
    callback_mutex,          \* owner of callback_mutex
    \* ---- AlsaAudioEngine::Impl and its device
    hw_buffered,             \* frames in the ALSA ring buffer, written and not yet played
    since_write,             \* clock ticks since last_audio_written_time, saturating
    estimated_remaining,     \* estimated_remaining_ms, in clock ticks
    \* ---- history of the current engine session
    sessions,                \* start() calls made by the controller
    pushed,                  \* samples appended by write_samples since start()
    invocations,             \* completion callback invocations since start()
    lastResult,              \* error_code of the last CompletionResult delivered
    escaped,                 \* an exception of the handler reached the caller of the engine
    \* ---- MusicPlayer
    m_should_quit,
    m_is_paused,
    m_advance_to_next,
    m_stop_playback,
    m_timeout_active,
    m_current_song_duration,
    m_current_song,          \* 0 = nullptr, else a song of the playlist
    m_current_index,         \* ShufflePlaylist::m_current_index (0-based)
    m_songs,                 \* ShufflePlaylist::m_songs
    m_shuffled_songs,        \* ShufflePlaylist::m_shuffled_songs
    m_is_shuffled,           \* ShufflePlaylist::m_is_shuffled
    m_playlist_mutex,        \* owner of m_playlist_mutex
    next_song,               \* the local next_song / prev_song of the mutex holder
    m_current_decoder,       \* "null", "open", "closed", "error" (a decode failed)
    decoder_left,            \* chunks the decoder still yields
    decoder_eof,             \* IAudioDecoder::is_eof()
    \* ---- environment
    elapsed,                 \* clock ticks since m_playback_start_time, saturating
    to_elapsed,              \* clock ticks since the timeout thread went to sleep
    hotkeys,                 \* hotkey commands issued so far
    \* ---- history of the player
    interrupted,             \* a next/previous/quit command was issued
    feeding,                 \* the playback thread of the current track set its start time
    natural_exit,            \* that thread left its loop with the stop flag clear
    stopper,                 \* thread inside stop_current_song, or "none"
    raced,                   \* a hotkey arrived during run()'s first play_current_song
    last_call,               \* the last call made on the playlist, or "none"
    last_song,               \* the song that call returned (0 = nullptr or void)
    platform                 \* "windows" or "linux": the engine create_audio_engine() builds

engineVars == <<secondary_buffer, is_playing, is_paused, should_stop, pending_samples,
                write_cursor, completion_callback, eof_signaled, callback_fired,
                total_samples_processed, buffer_mutex, callback_mutex,
                hw_buffered, since_write, estimated_remaining>>
histVars == <<sessions, pushed, invocations, lastResult, escaped>>
playerVars == <<m_should_quit, m_is_paused, m_advance_to_next, m_stop_playback,
                m_timeout_active, m_current_song_duration, m_current_song,
                m_current_index, m_songs, m_shuffled_songs, m_is_shuffled,
                m_playlist_mutex, next_song, m_current_decoder,
                decoder_left, decoder_eof>>
envVars == <<elapsed, to_elapsed, hotkeys, interrupted, feeding,
             natural_exit, stopper, raced, last_call, last_song, platform>>
vars == <<pc, ret, crashed, engineVars, histVars, playerVars, envVars>>

Min(a, b) == IF a < b THEN a ELSE b

\* ret[t] is the stack of return labels of thread t
Goto(t, l) ==
    /\ pc' = [pc EXCEPT ![t] = l]
    /\ UNCHANGED ret
\* call: continue at l, come back to r
Call(t, l, r) ==
    /\ pc' = [pc EXCEPT ![t] = l]
    /\ ret' = [ret EXCEPT ![t] = <<r>> \o @]
Return(t) ==
    /\ pc' = [pc EXCEPT ![t] = Head(ret[t])]
    /\ ret' = [ret EXCEPT ![t] = Tail(@)]

(***************************************************************************)
(* DirectSoundEngine                                                       *)
(***************************************************************************)

\* variants of the two guards below, used to test that the properties depend on them:
\* a check_completion that does not look at the queue,
CompletionConditionIgnoringQueue(eof, pending) == eof
\* a check_completion that does not look at the end-of-stream flag,
CompletionConditionIgnoringEof(eof, pending) == pending = 0
\* and a fire_completion_callback without the callback_fired exchange
ShouldInvokeUnguarded(fired, cb) == cb # "null"

\* check_completion's condition, read under buffer_mutex
CompletionCondition(eof, pending) == eof /\ pending = 0

\* a drain tick that returns on an empty queue without checking for completion
DrainTickWithoutCheck(eof, pending) == FALSE

\* update_buffer on an empty queue: check_completion() before it returns
DrainTickCompletion(eof, pending) == CompletionCondition(eof, pending)

\* fire_completion_callback: !callback_fired.exchange(true) && completion_callback
ShouldInvoke(fired, cb) == ~fired /\ cb # "null"

\* update_buffer: the free region between the write cursor and the play cursor
BytesToWrite(wc, play_cursor) ==
    IF wc > play_cursor THEN BufferBytes - wc + play_cursor
                        ELSE play_cursor - wc

\* positions GetCurrentPosition can report (block aligned)
PlayCursors == {p \in 0..(BufferBytes - 1) : p % SampleBytes = 0}

\* write_samples: one critical section on buffer_mutex
WriteSamples(n) ==
    /\ buffer_mutex = NoThread
    /\ pending_samples + n <= MaxPending
    /\ pending_samples' = pending_samples + n

\* signal_eof, first statement: eof_signaled = true
SignalEofStore(t) ==
    /\ ~crashed
    /\ pc[t] = "se_store"
    /\ eof_signaled' = TRUE
    /\ Goto(t, "se_check")
    /\ UNCHANGED <<crashed, secondary_buffer, is_playing, is_paused, should_stop,
                 pending_samples, write_cursor, completion_callback, callback_fired,
                 total_samples_processed, buffer_mutex, callback_mutex, hw_buffered,
                 since_write, estimated_remaining, sessions, pushed, invocations,
                 lastResult, escaped, m_should_quit, m_is_paused, m_advance_to_next,
                 m_stop_playback, m_timeout_active, m_current_song_duration,
                 m_current_song, m_current_index, m_songs, m_shuffled_songs,
                 m_is_shuffled, m_playlist_mutex, next_song, m_current_decoder,
                 decoder_left, decoder_eof, elapsed, to_elapsed, hotkeys, interrupted,
                 feeding, natural_exit, stopper, raced, last_call, last_song, platform>>

\* signal_eof, rest: lock buffer_mutex, check_completion
SignalEofCheck(t) ==
    /\ ~crashed
    /\ pc[t] = "se_check"
    /\ buffer_mutex = NoThread
    /\ IF CompletionCondition(eof_signaled, pending_samples)
         THEN /\ buffer_mutex' = t
              /\ Goto(t, "fire_lock")
         ELSE /\ Return(t)
              /\ UNCHANGED buffer_mutex
    /\ UNCHANGED <<crashed, secondary_buffer, is_playing, is_paused, should_stop,
                 pending_samples, write_cursor, completion_callback, eof_signaled,
                 callback_fired, total_samples_processed, callback_mutex, hw_buffered,
                 since_write, estimated_remaining, sessions, pushed, invocations,
                 lastResult, escaped, m_should_quit, m_is_paused, m_advance_to_next,
                 m_stop_playback, m_timeout_active, m_current_song_duration,
                 m_current_song, m_current_index, m_songs, m_shuffled_songs,
                 m_is_shuffled, m_playlist_mutex, next_song, m_current_decoder,
                 decoder_left, decoder_eof, elapsed, to_elapsed, hotkeys, interrupted,
                 feeding, natural_exit, stopper, raced, last_call, last_song, platform>>

\* a fire_completion_callback that consumes the one-shot flag only when a
\* callback is registered: completion_callback && !callback_fired.exchange(true)
FireCompletionCallbackWhenRegistered(t) ==
    /\ ~crashed
    /\ pc[t] = "fire_lock"
    /\ callback_mutex = NoThread
    /\ callback_fired' = (callback_fired \/ completion_callback # "null")
    /\ IF ShouldInvoke(callback_fired, completion_callback)
         THEN /\ callback_mutex' = t
              /\ invocations' = invocations + 1
              /\ lastResult' = "SUCCESS"
              /\ Goto(t, IF completion_callback = "handler" THEN "cb_timeout" ELSE "cb_test")
              /\ UNCHANGED buffer_mutex
         ELSE /\ buffer_mutex' = NoThread
              /\ Return(t)
              /\ UNCHANGED <<callback_mutex, invocations, lastResult>>
    /\ UNCHANGED <<crashed, secondary_buffer, is_playing, is_paused, should_stop,
                 pending_samples, write_cursor, completion_callback, eof_signaled,
                 total_samples_processed, hw_buffered, since_write, estimated_remaining,
                 sessions, pushed, escaped, m_should_quit, m_is_paused,
                 m_advance_to_next, m_stop_playback, m_timeout_active,
                 m_current_song_duration, m_current_song, m_current_index, m_songs,
                 m_shuffled_songs, m_is_shuffled, m_playlist_mutex, next_song,
                 m_current_decoder, decoder_left, decoder_eof, elapsed, to_elapsed,
                 hotkeys, interrupted, feeding, natural_exit, stopper, raced, last_call,
                 last_song, platform>>

\* fire_completion_callback(SUCCESS): lock callback_mutex, exchange, invoke
FireCompletionCallback(t) ==
    /\ ~crashed
    /\ pc[t] = "fire_lock"
    /\ callback_mutex = NoThread
    /\ callback_fired' = TRUE
    /\ IF ShouldInvoke(callback_fired, completion_callback)
         THEN /\ callback_mutex' = t
              /\ invocations' = invocations + 1
              /\ lastResult' = "SUCCESS"
              /\ Goto(t, IF completion_callback = "handler" THEN "cb_timeout" ELSE "cb_test")
              /\ UNCHANGED buffer_mutex
         ELSE /\ buffer_mutex' = NoThread
              /\ Return(t)
              /\ UNCHANGED <<callback_mutex, invocations, lastResult>>
    /\ UNCHANGED <<crashed, secondary_buffer, is_playing, is_paused, should_stop,
                 pending_samples, write_cursor, completion_callback, eof_signaled,
                 total_samples_processed, hw_buffered, since_write, estimated_remaining,
                 sessions, pushed, escaped, m_should_quit, m_is_paused,
                 m_advance_to_next, m_stop_playback, m_timeout_active,
                 m_current_song_duration, m_current_song, m_current_index, m_songs,
                 m_shuffled_songs, m_is_shuffled, m_playlist_mutex, next_song,
                 m_current_decoder, decoder_left, decoder_eof, elapsed, to_elapsed,
                 hotkeys, interrupted, feeding, natural_exit, stopper, raced, last_call,
                 last_song, platform>>

\* the test's counting callback returns; both lock_guards are released
TestCallbackReturn(t) ==
    /\ ~crashed
    /\ pc[t] = "cb_test"
    /\ callback_mutex' = NoThread
    /\ buffer_mutex' = NoThread
    /\ Return(t)
    /\ UNCHANGED <<crashed, secondary_buffer, is_playing, is_paused, should_stop,
                 pending_samples, write_cursor, completion_callback, eof_signaled,
                 callback_fired, total_samples_processed, hw_buffered, since_write,
                 estimated_remaining, sessions, pushed, invocations, lastResult,
                 escaped, m_should_quit, m_is_paused, m_advance_to_next,
                 m_stop_playback, m_timeout_active, m_current_song_duration,
                 m_current_song, m_current_index, m_songs, m_shuffled_songs,
                 m_is_shuffled, m_playlist_mutex, next_song, m_current_decoder,
                 decoder_left, decoder_eof, elapsed, to_elapsed, hotkeys, interrupted,
                 feeding, natural_exit, stopper, raced, last_call, last_song, platform>>

\* handle_playback_completion: m_timeout_active = false
HandlePlaybackCompletionCancel(t) ==
    /\ ~crashed
    /\ pc[t] = "cb_timeout"
    /\ m_timeout_active' = FALSE
    /\ Goto(t, "cb_advance")
    /\ UNCHANGED <<crashed, secondary_buffer, is_playing, is_paused, should_stop,
                 pending_samples, write_cursor, completion_callback, eof_signaled,
                 callback_fired, total_samples_processed, buffer_mutex, callback_mutex,
                 hw_buffered, since_write, estimated_remaining, sessions, pushed,
                 invocations, lastResult, escaped, m_should_quit, m_is_paused,
                 m_advance_to_next, m_stop_playback, m_current_song_duration,
                 m_current_song, m_current_index, m_songs, m_shuffled_songs,
                 m_is_shuffled, m_playlist_mutex, next_song, m_current_decoder,
                 decoder_left, decoder_eof, elapsed, to_elapsed, hotkeys, interrupted,
                 feeding, natural_exit, stopper, raced, last_call, last_song, platform>>

\* handle_playback_completion: m_advance_to_next = true; return, releasing both locks
HandlePlaybackCompletionAdvance(t) ==
    /\ ~crashed
    /\ pc[t] = "cb_advance"
    /\ m_advance_to_next' = TRUE
    /\ callback_mutex' = NoThread
    /\ buffer_mutex' = NoThread
    /\ Return(t)
    /\ UNCHANGED <<crashed, secondary_buffer, is_playing, is_paused, should_stop,
                 pending_samples, write_cursor, completion_callback, eof_signaled,
                 callback_fired, total_samples_processed, hw_buffered, since_write,
                 estimated_remaining, sessions, pushed, invocations, lastResult,
                 escaped, m_should_quit, m_is_paused, m_stop_playback, m_timeout_active,
                 m_current_song_duration, m_current_song, m_current_index, m_songs,
                 m_shuffled_songs, m_is_shuffled, m_playlist_mutex, next_song,
                 m_current_decoder, decoder_left, decoder_eof, elapsed, to_elapsed,
                 hotkeys, interrupted, feeding, natural_exit, stopper, raced, last_call,
                 last_song, platform>>

\* Impl::playback_loop: while (!should_stop) { if (is_playing && !is_paused) ...; sleep }
EnginePlaybackLoop ==
    /\ ~crashed
    /\ pc["eng"] = "el_loop"
    /\ \/ should_stop
       \/ is_playing /\ ~is_paused
    /\ Goto("eng", IF should_stop THEN "el_exit" ELSE "el_update")
    /\ UNCHANGED <<crashed, secondary_buffer, is_playing, is_paused, should_stop,
                 pending_samples, write_cursor, completion_callback, eof_signaled,
                 callback_fired, total_samples_processed, buffer_mutex, callback_mutex,
                 hw_buffered, since_write, estimated_remaining, sessions, pushed,
                 invocations, lastResult, escaped, m_should_quit, m_is_paused,
                 m_advance_to_next, m_stop_playback, m_timeout_active,
                 m_current_song_duration, m_current_song, m_current_index, m_songs,
                 m_shuffled_songs, m_is_shuffled, m_playlist_mutex, next_song,
                 m_current_decoder, decoder_left, decoder_eof, elapsed, to_elapsed,
                 hotkeys, interrupted, feeding, natural_exit, stopper, raced, last_call,
                 last_song, platform>>

\* update_buffer: one drain tick
UpdateBuffer ==
    /\ ~crashed
    /\ pc["eng"] = "el_update"
    /\ \E position_ok \in BOOLEAN, lock_ok \in BOOLEAN, play_cursor \in PlayCursors :
         IF ~position_ok
           THEN \* GetCurrentPosition failed
                /\ Goto("eng", "el_fault")
                /\ UNCHANGED <<crashed, pending_samples, write_cursor,
                               total_samples_processed, buffer_mutex>>
           ELSE
             /\ buffer_mutex = NoThread
             /\ IF pending_samples = 0
                  THEN \* check_completion with buffer_mutex held
                       /\ IF DrainTickCompletion(eof_signaled, pending_samples)
                            THEN /\ buffer_mutex' = "eng"
                                 /\ Call("eng", "fire_lock", "el_loop")
                            ELSE /\ Goto("eng", "el_loop")
                                 /\ UNCHANGED buffer_mutex
                       /\ UNCHANGED <<crashed, pending_samples, write_cursor,
                                      total_samples_processed>>
                  ELSE LET bytes_to_write == BytesToWrite(write_cursor, play_cursor)
                           samples_written == bytes_to_write \div SampleBytes
                       IN IF bytes_to_write < MinWriteBytes \/ ~lock_ok
                            THEN \* region too small, or Lock failed
                                 /\ Goto("eng", IF bytes_to_write < MinWriteBytes
                                                  THEN "el_loop" ELSE "el_fault")
                                 /\ UNCHANGED <<crashed, pending_samples, write_cursor,
                                                total_samples_processed, buffer_mutex>>
                            ELSE
                              /\ total_samples_processed' =
                                     Min(total_samples_processed + samples_written,
                                         MaxProcessed)
                              /\ write_cursor' = (write_cursor + bytes_to_write) % BufferBytes
                              /\ UNCHANGED buffer_mutex
                              /\ IF samples_written <= pending_samples
                                   THEN /\ pending_samples' = pending_samples - samples_written
                                        /\ Goto("eng", "el_loop")
                                        /\ UNCHANGED crashed
                                   ELSE \* erase() past end(): undefined behaviour
                                        \/ /\ crashed' = TRUE
                                           /\ UNCHANGED <<pc, ret, pending_samples>>
                                        \/ /\ pending_samples' \in 1..MaxPending
                                           /\ Goto("eng", "el_loop")
                                           /\ UNCHANGED crashed
    /\ UNCHANGED <<secondary_buffer, is_playing, is_paused, should_stop, completion_callback,
                 eof_signaled, callback_fired, callback_mutex, hw_buffered, since_write,
                 estimated_remaining, sessions, pushed, invocations, lastResult,
                 escaped, m_should_quit, m_is_paused, m_advance_to_next,
                 m_stop_playback, m_timeout_active, m_current_song_duration,
                 m_current_song, m_current_index, m_songs, m_shuffled_songs,
                 m_is_shuffled, m_playlist_mutex, next_song, m_current_decoder,
                 decoder_left, decoder_eof, elapsed, to_elapsed, hotkeys, interrupted,
                 feeding, natural_exit, stopper, raced, last_call, last_song, platform>>

\* a drain tick whose sink call failed ends the drain thread
AfterFaultFatal(loop, exit) == exit

\* update_buffer returns after a failed sink call; playback_loop sleeps and loops
AfterFault(loop, exit) == loop

\* update_buffer: return after FAILED(hr)
UpdateBufferFailed ==
    /\ ~crashed
    /\ pc["eng"] = "el_fault"
    /\ Goto("eng", AfterFault("el_loop", "el_exit"))
    /\ UNCHANGED <<crashed, secondary_buffer, is_playing, is_paused, should_stop,
                 pending_samples, write_cursor, completion_callback, eof_signaled,
                 callback_fired, total_samples_processed, buffer_mutex, callback_mutex,
                 hw_buffered, since_write, estimated_remaining, sessions, pushed,
                 invocations, lastResult, escaped, m_should_quit, m_is_paused,
                 m_advance_to_next, m_stop_playback, m_timeout_active,
                 m_current_song_duration, m_current_song, m_current_index, m_songs,
                 m_shuffled_songs, m_is_shuffled, m_playlist_mutex, next_song,
                 m_current_decoder, decoder_left, decoder_eof, elapsed, to_elapsed,
                 hotkeys, interrupted, feeding, natural_exit, stopper, raced, last_call,
                 last_song, platform>>

\* DirectSoundEngine::stop, up to should_stop = true
StopFlags(t) ==
    /\ ~crashed
    /\ pc[t] = "stop_flags"
    /\ IF ~secondary_buffer
         THEN /\ Return(t)
              /\ UNCHANGED <<is_playing, should_stop>>
         ELSE /\ is_playing' = FALSE
              /\ should_stop' = TRUE
              /\ Goto(t, "stop_clear_pending")
    /\ UNCHANGED <<crashed, secondary_buffer, is_paused, pending_samples, write_cursor,
                 completion_callback, eof_signaled, callback_fired,
                 total_samples_processed, buffer_mutex, callback_mutex, hw_buffered,
                 since_write, estimated_remaining, sessions, pushed, invocations,
                 lastResult, escaped, m_should_quit, m_is_paused, m_advance_to_next,
                 m_stop_playback, m_timeout_active, m_current_song_duration,
                 m_current_song, m_current_index, m_songs, m_shuffled_songs,
                 m_is_shuffled, m_playlist_mutex, next_song, m_current_decoder,
                 decoder_left, decoder_eof, elapsed, to_elapsed, hotkeys, interrupted,
                 feeding, natural_exit, stopper, raced, last_call, last_song, platform>>

\* a stop() that leaves the queued samples in place
StopKeepPending(t) ==
    /\ ~crashed
    /\ pc[t] = "stop_clear_pending"
    /\ buffer_mutex = NoThread
    /\ Goto(t, "stop_clear_cb")
    /\ UNCHANGED <<crashed, secondary_buffer, is_playing, is_paused, should_stop,
                 pending_samples, write_cursor, completion_callback, eof_signaled,
                 callback_fired, total_samples_processed, buffer_mutex, callback_mutex,
                 hw_buffered, since_write, estimated_remaining, sessions, pushed,
                 invocations, lastResult, escaped, m_should_quit, m_is_paused,
                 m_advance_to_next, m_stop_playback, m_timeout_active,
                 m_current_song_duration, m_current_song, m_current_index, m_songs,
                 m_shuffled_songs, m_is_shuffled, m_playlist_mutex, next_song,
                 m_current_decoder, decoder_left, decoder_eof, elapsed, to_elapsed,
                 hotkeys, interrupted, feeding, natural_exit, stopper, raced, last_call,
                 last_song, platform>>

\* stop: { lock buffer_mutex; pending_samples.clear(); }
StopClearPending(t) ==
    /\ ~crashed
    /\ pc[t] = "stop_clear_pending"
    /\ buffer_mutex = NoThread
    /\ pending_samples' = 0
    /\ Goto(t, "stop_clear_cb")
    /\ UNCHANGED <<crashed, secondary_buffer, is_playing, is_paused, should_stop, write_cursor,
                 completion_callback, eof_signaled, callback_fired,
                 total_samples_processed, buffer_mutex, callback_mutex, hw_buffered,
                 since_write, estimated_remaining, sessions, pushed, invocations,
                 lastResult, escaped, m_should_quit, m_is_paused, m_advance_to_next,
                 m_stop_playback, m_timeout_active, m_current_song_duration,
                 m_current_song, m_current_index, m_songs, m_shuffled_songs,
                 m_is_shuffled, m_playlist_mutex, next_song, m_current_decoder,
                 decoder_left, decoder_eof, elapsed, to_elapsed, hotkeys, interrupted,
                 feeding, natural_exit, stopper, raced, last_call, last_song, platform>>

\* stop: { lock callback_mutex; completion_callback = nullptr; }
StopClearCallback(t) ==
    /\ ~crashed
    /\ pc[t] = "stop_clear_cb"
    /\ callback_mutex = NoThread
    /\ completion_callback' = "null"
    /\ Goto(t, "stop_join")
    /\ UNCHANGED <<crashed, secondary_buffer, is_playing, is_paused, should_stop,
                 pending_samples, write_cursor, eof_signaled, callback_fired,
                 total_samples_processed, buffer_mutex, callback_mutex, hw_buffered,
                 since_write, estimated_remaining, sessions, pushed, invocations,
                 lastResult, escaped, m_should_quit, m_is_paused, m_advance_to_next,
                 m_stop_playback, m_timeout_active, m_current_song_duration,
                 m_current_song, m_current_index, m_songs, m_shuffled_songs,
                 m_is_shuffled, m_playlist_mutex, next_song, m_current_decoder,
                 decoder_left, decoder_eof, elapsed, to_elapsed, hotkeys, interrupted,
                 feeding, natural_exit, stopper, raced, last_call, last_song, platform>>

\* stop: join the drain thread, Stop(), write_cursor = 0
StopJoin(t) ==
    /\ ~crashed
    /\ pc[t] = "stop_join"
    /\ pc["eng"] \in {"none", "el_exit"}
    /\ write_cursor' = 0
    /\ pc' = [pc EXCEPT ![t] = Head(ret[t]), !["eng"] = "none"]
    /\ ret' = [ret EXCEPT ![t] = Tail(@)]
    /\ UNCHANGED <<crashed, secondary_buffer, is_playing, is_paused, should_stop,
                 pending_samples, completion_callback, eof_signaled, callback_fired,
                 total_samples_processed, buffer_mutex, callback_mutex, hw_buffered,
                 since_write, estimated_remaining, sessions, pushed, invocations,
                 lastResult, escaped, m_should_quit, m_is_paused, m_advance_to_next,
                 m_stop_playback, m_timeout_active, m_current_song_duration,
                 m_current_song, m_current_index, m_songs, m_shuffled_songs,
                 m_is_shuffled, m_playlist_mutex, next_song, m_current_decoder,
                 decoder_left, decoder_eof, elapsed, to_elapsed, hotkeys, interrupted,
                 feeding, natural_exit, stopper, raced, last_call, last_song, platform>>

\* DirectSoundEngine::start after Play() succeeded; the caller continues at next
EngineStart(t, next) ==
    /\ eof_signaled' = FALSE
    /\ callback_fired' = FALSE
    /\ total_samples_processed' = 0
    /\ is_playing' = TRUE
    /\ should_stop' = FALSE
    /\ pushed' = 0
    /\ invocations' = 0
    /\ UNCHANGED ret
    /\ IF pc["eng"] # "none"
         \* assigning to a joinable std::thread calls std::terminate
         THEN /\ crashed' = TRUE
              /\ UNCHANGED pc
         ELSE /\ pc' = [pc EXCEPT ![t] = next, !["eng"] = "el_loop"]
              /\ UNCHANGED crashed

\* set_completion_callback: one critical section on callback_mutex
SetCompletionCallback(cb) ==
    /\ callback_mutex = NoThread
    /\ completion_callback' = cb

(***************************************************************************)
(* Clients of the engine: threads that call write_samples and signal_eof,  *)
(* and a controller that registers the callback and starts, pauses and     *)
(* stops the engine.  start() is called between sessions, when no client   *)
(* call is in flight.                                                      *)
(***************************************************************************)

ClientWrite(c) ==
    /\ ~crashed
    /\ pc[c] = "idle"
    /\ sessions >= 1
    /\ \E n \in 1..MaxChunk :
         /\ pushed + n <= MaxPushed
         /\ WriteSamples(n)
         /\ pushed' = pushed + n
    /\ UNCHANGED <<pc, ret, crashed, secondary_buffer, is_playing, is_paused, should_stop,
                 write_cursor, completion_callback, eof_signaled, callback_fired,
                 total_samples_processed, buffer_mutex, callback_mutex, hw_buffered,
                 since_write, estimated_remaining, sessions, invocations, lastResult,
                 escaped, m_should_quit, m_is_paused, m_advance_to_next,
                 m_stop_playback, m_timeout_active, m_current_song_duration,
                 m_current_song, m_current_index, m_songs, m_shuffled_songs,
                 m_is_shuffled, m_playlist_mutex, next_song, m_current_decoder,
                 decoder_left, decoder_eof, elapsed, to_elapsed, hotkeys, interrupted,
                 feeding, natural_exit, stopper, raced, last_call, last_song, platform>>

ClientSignalEof(c) ==
    /\ ~crashed
    /\ pc[c] = "idle"
    /\ sessions >= 1
    /\ Call(c, "se_store", "idle")
    /\ UNCHANGED <<crashed, secondary_buffer, is_playing, is_paused, should_stop,
                 pending_samples, write_cursor, completion_callback, eof_signaled,
                 callback_fired, total_samples_processed, buffer_mutex, callback_mutex,
                 hw_buffered, since_write, estimated_remaining, sessions, pushed,
                 invocations, lastResult, escaped, m_should_quit, m_is_paused,
                 m_advance_to_next, m_stop_playback, m_timeout_active,
                 m_current_song_duration, m_current_song, m_current_index, m_songs,
                 m_shuffled_songs, m_is_shuffled, m_playlist_mutex, next_song,
                 m_current_decoder, decoder_left, decoder_eof, elapsed, to_elapsed,
                 hotkeys, interrupted, feeding, natural_exit, stopper, raced, last_call,
                 last_song, platform>>

\* initialize(format) succeeded, then set_completion_callback(counting lambda)
CtlRegister ==
    /\ ~crashed
    /\ pc["ctl"] = "ctl_idle"
    /\ pc["eng"] = "none"
    /\ completion_callback = "null"
    /\ secondary_buffer' = TRUE
    /\ SetCompletionCallback("test")
    /\ UNCHANGED <<pc, ret, crashed, is_playing, is_paused, should_stop, pending_samples,
                 write_cursor, eof_signaled, callback_fired, total_samples_processed,
                 buffer_mutex, callback_mutex, hw_buffered, since_write,
                 estimated_remaining, sessions, pushed, invocations, lastResult,
                 escaped, m_should_quit, m_is_paused, m_advance_to_next,
                 m_stop_playback, m_timeout_active, m_current_song_duration,
                 m_current_song, m_current_index, m_songs, m_shuffled_songs,
                 m_is_shuffled, m_playlist_mutex, next_song, m_current_decoder,
                 decoder_left, decoder_eof, elapsed, to_elapsed, hotkeys, interrupted,
                 feeding, natural_exit, stopper, raced, last_call, last_song, platform>>

CtlStart ==
    /\ ~crashed
    /\ pc["ctl"] = "ctl_idle"
    /\ pc["eng"] = "none"
    /\ secondary_buffer
    /\ completion_callback # "null"
    /\ \A c \in Clients : pc[c] = "idle"
    /\ sessions < MaxSessions
    /\ sessions' = sessions + 1
    /\ EngineStart("ctl", "ctl_idle")
    /\ UNCHANGED <<secondary_buffer, is_paused, pending_samples, write_cursor,
                 completion_callback, buffer_mutex, callback_mutex, hw_buffered,
                 since_write, estimated_remaining, lastResult, escaped, m_should_quit,
                 m_is_paused, m_advance_to_next, m_stop_playback, m_timeout_active,
                 m_current_song_duration, m_current_song, m_current_index, m_songs,
                 m_shuffled_songs, m_is_shuffled, m_playlist_mutex, next_song,
                 m_current_decoder, decoder_left, decoder_eof, elapsed, to_elapsed,
                 hotkeys, interrupted, feeding, natural_exit, stopper, raced, last_call,
                 last_song, platform>>

CtlStop ==
    /\ ~crashed
    /\ pc["ctl"] = "ctl_idle"
    /\ pc["eng"] # "none"
    /\ Call("ctl", "stop_flags", "ctl_idle")
    /\ UNCHANGED <<crashed, secondary_buffer, is_playing, is_paused, should_stop,
                 pending_samples, write_cursor, completion_callback, eof_signaled,
                 callback_fired, total_samples_processed, buffer_mutex, callback_mutex,
                 hw_buffered, since_write, estimated_remaining, sessions, pushed,
                 invocations, lastResult, escaped, m_should_quit, m_is_paused,
                 m_advance_to_next, m_stop_playback, m_timeout_active,
                 m_current_song_duration, m_current_song, m_current_index, m_songs,
                 m_shuffled_songs, m_is_shuffled, m_playlist_mutex, next_song,
                 m_current_decoder, decoder_left, decoder_eof, elapsed, to_elapsed,
                 hotkeys, interrupted, feeding, natural_exit, stopper, raced, last_call,
                 last_song, platform>>

\* pause() / resume()
CtlPauseResume ==
    /\ ~crashed
    /\ pc["ctl"] = "ctl_idle"
    /\ pc["eng"] # "none"
    /\ is_paused' = ~is_paused
    /\ UNCHANGED <<pc, ret, crashed, secondary_buffer, is_playing, should_stop,
                 pending_samples, write_cursor, completion_callback, eof_signaled,
                 callback_fired, total_samples_processed, buffer_mutex, callback_mutex,
                 hw_buffered, since_write, estimated_remaining, sessions, pushed,
                 invocations, lastResult, escaped, m_should_quit, m_is_paused,
                 m_advance_to_next, m_stop_playback, m_timeout_active,
                 m_current_song_duration, m_current_song, m_current_index, m_songs,
                 m_shuffled_songs, m_is_shuffled, m_playlist_mutex, next_song,
                 m_current_decoder, decoder_left, decoder_eof, elapsed, to_elapsed,
                 hotkeys, interrupted, feeding, natural_exit, stopper, raced, last_call,
                 last_song, platform>>

(***************************************************************************)
(* ShufflePlaylist, as far as the player uses it: the songs, the current   *)
(* index, next() and previous().                                           *)
(***************************************************************************)

\* a next() that stops at the last song
NextIndexStayAtEnd(index, size) ==
    IF index + 1 < size THEN index + 1 ELSE index

\* ShufflePlaylist::next on a playlist of size songs: the index after the call
NextIndex(index, size) ==
    IF index + 1 < size THEN index + 1
    ELSE IF size = 1 THEN index
    ELSE 0

\* ShufflePlaylist::previous on a playlist of size songs: the index after the call
PreviousIndex(index, size) ==
    IF index > 0 THEN index - 1
    ELSE IF size = 1 THEN index
    ELSE size - 1

\* const auto& playlist = m_is_shuffled ? m_shuffled_songs : m_songs
ActivePlaylist == IF m_is_shuffled THEN m_shuffled_songs ELSE m_songs

\* the index after next() / previous() on the player's playlist
PlaylistNext(index) == NextIndex(index, Len(ActivePlaylist))

PlaylistPrevious(index) == PreviousIndex(index, Len(ActivePlaylist))

\* &playlist[index]: a song is named by the element that holds it
SongAt(index) == ActivePlaylist[index + 1]

(***************************************************************************)
(* MusicPlayer::play_current_song, run by the main thread and by the       *)
(* hotkey thread                                                           *)
(***************************************************************************)

\* create_decoder, open, get_duration (0 = unknown), get_format, initialize
PlayOpen(t) ==
    /\ ~crashed
    /\ pc[t] = "pcs_open"
    /\ LET song == IF m_current_song = 0 THEN SongAt(m_current_index) ELSE m_current_song
       IN /\ m_current_song' = song
          /\ feeding' = FALSE
          /\ natural_exit' = FALSE
          /\ \E outcome \in {"ok", "open_failed", "initialize_failed"} :
               IF outcome = "open_failed"
                 THEN /\ m_current_decoder' = "closed"
                      /\ decoder_left' = 0
                      /\ decoder_eof' = FALSE
                      /\ Return(t)
                      /\ UNCHANGED <<m_current_song_duration, secondary_buffer>>
                 ELSE /\ m_current_decoder' = "open"
                      /\ decoder_left' = DecoderChunks
                      /\ decoder_eof' = FALSE
                      /\ \E duration \in 0..MaxDuration :
                           m_current_song_duration' = duration
                      /\ IF outcome = "ok"
                           THEN /\ secondary_buffer' = TRUE
                                /\ Goto(t, "pcs_set_cb")
                           ELSE /\ Return(t)
                                /\ UNCHANGED secondary_buffer
    /\ UNCHANGED <<crashed, is_playing, is_paused, should_stop, pending_samples, write_cursor,
                 completion_callback, eof_signaled, callback_fired,
                 total_samples_processed, buffer_mutex, callback_mutex, hw_buffered,
                 since_write, estimated_remaining, sessions, pushed, invocations,
                 lastResult, escaped, m_should_quit, m_is_paused, m_advance_to_next,
                 m_stop_playback, m_timeout_active, m_current_index, m_songs,
                 m_shuffled_songs, m_is_shuffled, m_playlist_mutex, next_song, elapsed,
                 to_elapsed, hotkeys, interrupted, stopper, raced, last_call, last_song,
                 platform>>

\* set_completion_callback([this](result) { handle_playback_completion(result); })
PlaySetCallback(t) ==
    /\ ~crashed
    /\ pc[t] = "pcs_set_cb"
    /\ SetCompletionCallback("handler")
    /\ Goto(t, "pcs_start")
    /\ UNCHANGED <<crashed, secondary_buffer, is_playing, is_paused, should_stop,
                 pending_samples, write_cursor, eof_signaled, callback_fired,
                 total_samples_processed, buffer_mutex, callback_mutex, hw_buffered,
                 since_write, estimated_remaining, sessions, pushed, invocations,
                 lastResult, escaped, m_should_quit, m_is_paused, m_advance_to_next,
                 m_stop_playback, m_timeout_active, m_current_song_duration,
                 m_current_song, m_current_index, m_songs, m_shuffled_songs,
                 m_is_shuffled, m_playlist_mutex, next_song, m_current_decoder,
                 decoder_left, decoder_eof, elapsed, to_elapsed, hotkeys, interrupted,
                 feeding, natural_exit, stopper, raced, last_call, last_song, platform>>

\* set_volume, m_audio_engine->start()
PlayStart(t) ==
    /\ ~crashed
    /\ pc[t] = "pcs_start"
    /\ \E ok \in BOOLEAN :
         IF ok /\ secondary_buffer
           THEN EngineStart(t, "pcs_thread")
           ELSE /\ Return(t)
                /\ UNCHANGED <<crashed, eof_signaled, callback_fired,
                               total_samples_processed, is_playing, should_stop, pushed,
                               invocations>>
    /\ UNCHANGED <<secondary_buffer, is_paused, pending_samples, write_cursor,
                 completion_callback, buffer_mutex, callback_mutex, hw_buffered,
                 since_write, estimated_remaining, sessions, lastResult, escaped,
                 m_should_quit, m_is_paused, m_advance_to_next, m_stop_playback,
                 m_timeout_active, m_current_song_duration, m_current_song,
                 m_current_index, m_songs, m_shuffled_songs, m_is_shuffled,
                 m_playlist_mutex, next_song, m_current_decoder, decoder_left,
                 decoder_eof, elapsed, to_elapsed, hotkeys, interrupted, feeding,
                 natural_exit, stopper, raced, last_call, last_song, platform>>

\* a play_current_song that takes m_playback_start_time itself, before the
\* playback thread runs
PlayThreadSetsStartTime(t) ==
    /\ ~crashed
    /\ pc[t] = "pcs_thread"
    /\ elapsed' = 0
    /\ IF pc["pb"] # "none"
         THEN /\ crashed' = TRUE
              /\ UNCHANGED <<pc, ret>>
         ELSE /\ pc' = [pc EXCEPT ![t] = Head(ret[t]), !["pb"] = "pb_begin"]
              /\ ret' = [ret EXCEPT ![t] = Tail(@)]
              /\ UNCHANGED crashed
    /\ UNCHANGED <<secondary_buffer, is_playing, is_paused, should_stop, pending_samples,
                 write_cursor, completion_callback, eof_signaled, callback_fired,
                 total_samples_processed, buffer_mutex, callback_mutex, hw_buffered,
                 since_write, estimated_remaining, sessions, pushed, invocations,
                 lastResult, escaped, m_should_quit, m_is_paused, m_advance_to_next,
                 m_stop_playback, m_timeout_active, m_current_song_duration,
                 m_current_song, m_current_index, m_songs, m_shuffled_songs,
                 m_is_shuffled, m_playlist_mutex, next_song, m_current_decoder,
                 decoder_left, decoder_eof, to_elapsed, hotkeys, interrupted, feeding,
                 natural_exit, stopper, raced, last_call, last_song, platform>>

\* m_playback_thread = std::thread(&MusicPlayer::playback_loop, this)
PlayThread(t) ==
    /\ ~crashed
    /\ pc[t] = "pcs_thread"
    /\ IF pc["pb"] # "none"
         \* assigning to a joinable std::thread calls std::terminate
         THEN /\ crashed' = TRUE
              /\ UNCHANGED <<pc, ret>>
         ELSE /\ pc' = [pc EXCEPT ![t] = Head(ret[t]), !["pb"] = "pb_begin"]
              /\ ret' = [ret EXCEPT ![t] = Tail(@)]
              /\ UNCHANGED crashed
    /\ UNCHANGED <<secondary_buffer, is_playing, is_paused, should_stop, pending_samples,
                 write_cursor, completion_callback, eof_signaled, callback_fired,
                 total_samples_processed, buffer_mutex, callback_mutex, hw_buffered,
                 since_write, estimated_remaining, sessions, pushed, invocations,
                 lastResult, escaped, m_should_quit, m_is_paused, m_advance_to_next,
                 m_stop_playback, m_timeout_active, m_current_song_duration,
                 m_current_song, m_current_index, m_songs, m_shuffled_songs,
                 m_is_shuffled, m_playlist_mutex, next_song, m_current_decoder,
                 decoder_left, decoder_eof, elapsed, to_elapsed, hotkeys, interrupted,
                 feeding, natural_exit, stopper, raced, last_call, last_song, platform>>

(***************************************************************************)
(* MusicPlayer::stop_current_song                                          *)
(***************************************************************************)

\* m_timeout_active = false
StopCancelTimeout(t) ==
    /\ ~crashed
    /\ pc[t] = "scs_cancel"
    /\ m_timeout_active' = FALSE
    /\ stopper' = t
    /\ Goto(t, "scs_reset")
    /\ UNCHANGED <<crashed, secondary_buffer, is_playing, is_paused, should_stop,
                 pending_samples, write_cursor, completion_callback, eof_signaled,
                 callback_fired, total_samples_processed, buffer_mutex, callback_mutex,
                 hw_buffered, since_write, estimated_remaining, sessions, pushed,
                 invocations, lastResult, escaped, m_should_quit, m_is_paused,
                 m_advance_to_next, m_stop_playback, m_current_song_duration,
                 m_current_song, m_current_index, m_songs, m_shuffled_songs,
                 m_is_shuffled, m_playlist_mutex, next_song, m_current_decoder,
                 decoder_left, decoder_eof, elapsed, to_elapsed, hotkeys, interrupted,
                 feeding, natural_exit, raced, last_call, last_song, platform>>

\* a stop_current_song() that also resets the player's pause flag
StopResetAdvanceAndPause(t) ==
    /\ ~crashed
    /\ pc[t] = "scs_reset"
    /\ m_advance_to_next' = FALSE
    /\ m_current_song_duration' = 0
    /\ m_is_paused' = FALSE
    /\ Goto(t, "scs_flag")
    /\ UNCHANGED <<crashed, secondary_buffer, is_playing, is_paused, should_stop,
                 pending_samples, write_cursor, completion_callback, eof_signaled,
                 callback_fired, total_samples_processed, buffer_mutex, callback_mutex,
                 hw_buffered, since_write, estimated_remaining, sessions, pushed,
                 invocations, lastResult, escaped, m_should_quit, m_stop_playback,
                 m_timeout_active, m_current_song, m_current_index, m_songs,
                 m_shuffled_songs, m_is_shuffled, m_playlist_mutex, next_song,
                 m_current_decoder, decoder_left, decoder_eof, elapsed, to_elapsed,
                 hotkeys, interrupted, feeding, natural_exit, stopper, raced, last_call,
                 last_song, platform>>

\* m_advance_to_next = false; m_current_song_duration = 0.0
StopResetAdvance(t) ==
    /\ ~crashed
    /\ pc[t] = "scs_reset"
    /\ m_advance_to_next' = FALSE
    /\ m_current_song_duration' = 0
    /\ Goto(t, "scs_flag")
    /\ UNCHANGED <<crashed, secondary_buffer, is_playing, is_paused, should_stop,
                 pending_samples, write_cursor, completion_callback, eof_signaled,
                 callback_fired, total_samples_processed, buffer_mutex, callback_mutex,
                 hw_buffered, since_write, estimated_remaining, sessions, pushed,
                 invocations, lastResult, escaped, m_should_quit, m_is_paused,
                 m_stop_playback, m_timeout_active, m_current_song, m_current_index,
                 m_songs, m_shuffled_songs, m_is_shuffled, m_playlist_mutex, next_song,
                 m_current_decoder, decoder_left, decoder_eof, elapsed, to_elapsed,
                 hotkeys, interrupted, feeding, natural_exit, stopper, raced, last_call,
                 last_song, platform>>

\* m_stop_playback = true
StopSetFlag(t) ==
    /\ ~crashed
    /\ pc[t] = "scs_flag"
    /\ m_stop_playback' = TRUE
    /\ Goto(t, "scs_join_pb")
    /\ UNCHANGED <<crashed, secondary_buffer, is_playing, is_paused, should_stop,
                 pending_samples, write_cursor, completion_callback, eof_signaled,
                 callback_fired, total_samples_processed, buffer_mutex, callback_mutex,
                 hw_buffered, since_write, estimated_remaining, sessions, pushed,
                 invocations, lastResult, escaped, m_should_quit, m_is_paused,
                 m_advance_to_next, m_timeout_active, m_current_song_duration,
                 m_current_song, m_current_index, m_songs, m_shuffled_songs,
                 m_is_shuffled, m_playlist_mutex, next_song, m_current_decoder,
                 decoder_left, decoder_eof, elapsed, to_elapsed, hotkeys, interrupted,
                 feeding, natural_exit, stopper, raced, last_call, last_song, platform>>

\* if (m_playback_thread.joinable()) join(); then m_audio_engine->stop()
StopJoinPlayback(t) ==
    /\ ~crashed
    /\ pc[t] = "scs_join_pb"
    /\ pc["pb"] \in {"none", "pb_done"}
    /\ pc' = [pc EXCEPT ![t] = "stop_flags", !["pb"] = "none"]
    /\ ret' = [ret EXCEPT ![t] = <<"scs_close">> \o @]
    /\ UNCHANGED <<crashed, secondary_buffer, is_playing, is_paused, should_stop,
                 pending_samples, write_cursor, completion_callback, eof_signaled,
                 callback_fired, total_samples_processed, buffer_mutex, callback_mutex,
                 hw_buffered, since_write, estimated_remaining, sessions, pushed,
                 invocations, lastResult, escaped, m_should_quit, m_is_paused,
                 m_advance_to_next, m_stop_playback, m_timeout_active,
                 m_current_song_duration, m_current_song, m_current_index, m_songs,
                 m_shuffled_songs, m_is_shuffled, m_playlist_mutex, next_song,
                 m_current_decoder, decoder_left, decoder_eof, elapsed, to_elapsed,
                 hotkeys, interrupted, feeding, natural_exit, stopper, raced, last_call,
                 last_song, platform>>

\* if (m_current_decoder) m_current_decoder->close()
StopCloseDecoder(t) ==
    /\ ~crashed
    /\ pc[t] = "scs_close"
    /\ m_current_decoder' = IF m_current_decoder \in {"open", "error"} THEN "closed"
                            ELSE m_current_decoder
    /\ Goto(t, "scs_join_to")
    /\ UNCHANGED <<crashed, secondary_buffer, is_playing, is_paused, should_stop,
                 pending_samples, write_cursor, completion_callback, eof_signaled,
                 callback_fired, total_samples_processed, buffer_mutex, callback_mutex,
                 hw_buffered, since_write, estimated_remaining, sessions, pushed,
                 invocations, lastResult, escaped, m_should_quit, m_is_paused,
                 m_advance_to_next, m_stop_playback, m_timeout_active,
                 m_current_song_duration, m_current_song, m_current_index, m_songs,
                 m_shuffled_songs, m_is_shuffled, m_playlist_mutex, next_song,
                 decoder_left, decoder_eof, elapsed, to_elapsed, hotkeys, interrupted,
                 feeding, natural_exit, stopper, raced, last_call, last_song, platform>>

\* if (m_timeout_thread.joinable()) join()
StopJoinTimeout(t) ==
    /\ ~crashed
    /\ pc[t] = "scs_join_to"
    /\ pc["to"] \in {"none", "to_done"}
    /\ pc' = [pc EXCEPT ![t] = "scs_unflag", !["to"] = "none"]
    /\ UNCHANGED ret
    /\ UNCHANGED <<crashed, secondary_buffer, is_playing, is_paused, should_stop,
                 pending_samples, write_cursor, completion_callback, eof_signaled,
                 callback_fired, total_samples_processed, buffer_mutex, callback_mutex,
                 hw_buffered, since_write, estimated_remaining, sessions, pushed,
                 invocations, lastResult, escaped, m_should_quit, m_is_paused,
                 m_advance_to_next, m_stop_playback, m_timeout_active,
                 m_current_song_duration, m_current_song, m_current_index, m_songs,
                 m_shuffled_songs, m_is_shuffled, m_playlist_mutex, next_song,
                 m_current_decoder, decoder_left, decoder_eof, elapsed, to_elapsed,
                 hotkeys, interrupted, feeding, natural_exit, stopper, raced, last_call,
                 last_song, platform>>

\* m_stop_playback = false
StopClearFlag(t) ==
    /\ ~crashed
    /\ pc[t] = "scs_unflag"
    /\ m_stop_playback' = FALSE
    /\ Goto(t, "scs_reset_decoder")
    /\ UNCHANGED <<crashed, secondary_buffer, is_playing, is_paused, should_stop,
                 pending_samples, write_cursor, completion_callback, eof_signaled,
                 callback_fired, total_samples_processed, buffer_mutex, callback_mutex,
                 hw_buffered, since_write, estimated_remaining, sessions, pushed,
                 invocations, lastResult, escaped, m_should_quit, m_is_paused,
                 m_advance_to_next, m_timeout_active, m_current_song_duration,
                 m_current_song, m_current_index, m_songs, m_shuffled_songs,
                 m_is_shuffled, m_playlist_mutex, next_song, m_current_decoder,
                 decoder_left, decoder_eof, elapsed, to_elapsed, hotkeys, interrupted,
                 feeding, natural_exit, stopper, raced, last_call, last_song, platform>>

\* m_current_decoder.reset()
StopResetDecoder(t) ==
    /\ ~crashed
    /\ pc[t] = "scs_reset_decoder"
    /\ m_current_decoder' = "null"
    /\ Goto(t, "scs_clear_cb")
    /\ UNCHANGED <<crashed, secondary_buffer, is_playing, is_paused, should_stop,
                 pending_samples, write_cursor, completion_callback, eof_signaled,
                 callback_fired, total_samples_processed, buffer_mutex, callback_mutex,
                 hw_buffered, since_write, estimated_remaining, sessions, pushed,
                 invocations, lastResult, escaped, m_should_quit, m_is_paused,
                 m_advance_to_next, m_stop_playback, m_timeout_active,
                 m_current_song_duration, m_current_song, m_current_index, m_songs,
                 m_shuffled_songs, m_is_shuffled, m_playlist_mutex, next_song,
                 decoder_left, decoder_eof, elapsed, to_elapsed, hotkeys, interrupted,
                 feeding, natural_exit, stopper, raced, last_call, last_song, platform>>

\* m_audio_engine->set_completion_callback(nullptr); return
StopClearRegistration(t) ==
    /\ ~crashed
    /\ pc[t] = "scs_clear_cb"
    /\ SetCompletionCallback("null")
    /\ stopper' = NoThread
    /\ Return(t)
    /\ UNCHANGED <<crashed, secondary_buffer, is_playing, is_paused, should_stop,
                 pending_samples, write_cursor, eof_signaled, callback_fired,
                 total_samples_processed, buffer_mutex, callback_mutex, hw_buffered,
                 since_write, estimated_remaining, sessions, pushed, invocations,
                 lastResult, escaped, m_should_quit, m_is_paused, m_advance_to_next,
                 m_stop_playback, m_timeout_active, m_current_song_duration,
                 m_current_song, m_current_index, m_songs, m_shuffled_songs,
                 m_is_shuffled, m_playlist_mutex, next_song, m_current_decoder,
                 decoder_left, decoder_eof, elapsed, to_elapsed, hotkeys, interrupted,
                 feeding, natural_exit, raced, last_call, last_song, platform>>

(***************************************************************************)
(* MusicPlayer::playback_loop, the playback thread                         *)
(***************************************************************************)

\* the duration check of the loop: elapsed_seconds >= m_current_song_duration
DurationReached(duration, elapsed_seconds) ==
    m_use_duration_based_completion /\ duration > 0 /\ elapsed_seconds >= duration

\* m_playback_start_time = steady_clock::now()
PlaybackBegin ==
    /\ ~crashed
    /\ pc["pb"] = "pb_begin"
    /\ elapsed' = 0
    /\ feeding' = TRUE
    /\ Goto("pb", "pb_loop")
    /\ UNCHANGED <<crashed, secondary_buffer, is_playing, is_paused, should_stop,
                 pending_samples, write_cursor, completion_callback, eof_signaled,
                 callback_fired, total_samples_processed, buffer_mutex, callback_mutex,
                 hw_buffered, since_write, estimated_remaining, sessions, pushed,
                 invocations, lastResult, escaped, m_should_quit, m_is_paused,
                 m_advance_to_next, m_stop_playback, m_timeout_active,
                 m_current_song_duration, m_current_song, m_current_index, m_songs,
                 m_shuffled_songs, m_is_shuffled, m_playlist_mutex, next_song,
                 m_current_decoder, decoder_left, decoder_eof, to_elapsed, hotkeys,
                 interrupted, natural_exit, stopper, raced, last_call, last_song,
                 platform>>

\* a decode request that was served in full: buffer_size samples
NormalChunk == MaxChunk

\* a loop that breaks when decode() fails, at end of file or not
FeedsSilenceNever(decoder, eof) == FALSE

\* decode() failed: else if (m_current_decoder->is_eof()); an open decoder that
\* has nothing left reports end of file
FeedsSilence(decoder, eof) == decoder = "open" \/ eof

\* one iteration of the while loop
PlaybackIterate ==
    /\ ~crashed
    /\ pc["pb"] = "pb_loop"
    /\ IF m_stop_playback \/ m_should_quit \/ m_current_decoder = "null"
         THEN \* the loop condition fails
              /\ natural_exit' = (~m_stop_playback /\ ~m_should_quit)
              /\ Goto("pb", "pb_post")
              /\ UNCHANGED <<pending_samples, decoder_left, decoder_eof, m_current_decoder>>
         ELSE IF DurationReached(m_current_song_duration, elapsed)
         THEN \* break on duration
              /\ natural_exit' = TRUE
              /\ Goto("pb", "pb_post")
              /\ UNCHANGED <<pending_samples, decoder_left, decoder_eof, m_current_decoder>>
         ELSE
           /\ ~m_is_paused
           /\ IF m_current_decoder = "open" /\ ~decoder_eof /\ decoder_left > 0
                THEN \/ \* decode() returned samples: write_samples(buffer)
                        /\ \E n \in 1..MaxChunk : WriteSamples(n)
                        /\ decoder_left' = decoder_left - 1
                        /\ \E at_end \in BOOLEAN :
                             decoder_eof' = (decoder_left = 1 /\ at_end)
                        /\ Goto("pb", "pb_loop")
                        /\ UNCHANGED <<natural_exit, m_current_decoder>>
                     \/ \* decode() failed in mid-stream, not is_eof(): break
                        /\ m_current_decoder' = "error"
                        /\ natural_exit' = TRUE
                        /\ Goto("pb", "pb_post")
                        /\ UNCHANGED <<pending_samples, decoder_left, decoder_eof>>
                ELSE IF FeedsSilence(m_current_decoder, decoder_eof)
                THEN \* decode() failed and is_eof(): write buffer_size zero samples
                     /\ WriteSamples(NormalChunk)
                     /\ decoder_eof' = TRUE
                     /\ Goto("pb", "pb_loop")
                     /\ UNCHANGED <<decoder_left, natural_exit, m_current_decoder>>
                ELSE \* decode() failed and not is_eof(): break
                     /\ natural_exit' = TRUE
                     /\ Goto("pb", "pb_post")
                     /\ UNCHANGED <<pending_samples, decoder_left, decoder_eof,
                                    m_current_decoder>>
    /\ UNCHANGED <<crashed, secondary_buffer, is_playing, is_paused, should_stop, write_cursor,
                 completion_callback, eof_signaled, callback_fired,
                 total_samples_processed, buffer_mutex, callback_mutex, hw_buffered,
                 since_write, estimated_remaining, sessions, pushed, invocations,
                 lastResult, escaped, m_should_quit, m_is_paused, m_advance_to_next,
                 m_stop_playback, m_timeout_active, m_current_song_duration,
                 m_current_song, m_current_index, m_songs, m_shuffled_songs,
                 m_is_shuffled, m_playlist_mutex, next_song, elapsed, to_elapsed,
                 hotkeys, interrupted, feeding, stopper, raced, last_call, last_song,
                 platform>>

\* after the loop: if (m_current_decoder) m_audio_engine->signal_eof()
PlaybackSignal ==
    /\ ~crashed
    /\ pc["pb"] = "pb_post"
    /\ IF m_current_decoder # "null"
         THEN Call("pb", "se_store", "pb_check1")
         ELSE Goto("pb", "pb_done")
    /\ UNCHANGED <<crashed, secondary_buffer, is_playing, is_paused, should_stop,
                 pending_samples, write_cursor, completion_callback, eof_signaled,
                 callback_fired, total_samples_processed, buffer_mutex, callback_mutex,
                 hw_buffered, since_write, estimated_remaining, sessions, pushed,
                 invocations, lastResult, escaped, m_should_quit, m_is_paused,
                 m_advance_to_next, m_stop_playback, m_timeout_active,
                 m_current_song_duration, m_current_song, m_current_index, m_songs,
                 m_shuffled_songs, m_is_shuffled, m_playlist_mutex, next_song,
                 m_current_decoder, decoder_left, decoder_eof, elapsed, to_elapsed,
                 hotkeys, interrupted, feeding, natural_exit, stopper, raced, last_call,
                 last_song, platform>>

\* if (m_use_duration_based_completion && !m_stop_playback.load())
PlaybackCheckDuration ==
    /\ ~crashed
    /\ pc["pb"] = "pb_check1"
    /\ Goto("pb", IF m_use_duration_based_completion /\ ~m_stop_playback
                    THEN "pb_advance" ELSE "pb_check2")
    /\ UNCHANGED <<crashed, secondary_buffer, is_playing, is_paused, should_stop,
                 pending_samples, write_cursor, completion_callback, eof_signaled,
                 callback_fired, total_samples_processed, buffer_mutex, callback_mutex,
                 hw_buffered, since_write, estimated_remaining, sessions, pushed,
                 invocations, lastResult, escaped, m_should_quit, m_is_paused,
                 m_advance_to_next, m_stop_playback, m_timeout_active,
                 m_current_song_duration, m_current_song, m_current_index, m_songs,
                 m_shuffled_songs, m_is_shuffled, m_playlist_mutex, next_song,
                 m_current_decoder, decoder_left, decoder_eof, elapsed, to_elapsed,
                 hotkeys, interrupted, feeding, natural_exit, stopper, raced, last_call,
                 last_song, platform>>

\* sleep_for(100ms); m_advance_to_next = true
PlaybackAdvance ==
    /\ ~crashed
    /\ pc["pb"] = "pb_advance"
    /\ m_advance_to_next' = TRUE
    /\ Goto("pb", "pb_done")
    /\ UNCHANGED <<crashed, secondary_buffer, is_playing, is_paused, should_stop,
                 pending_samples, write_cursor, completion_callback, eof_signaled,
                 callback_fired, total_samples_processed, buffer_mutex, callback_mutex,
                 hw_buffered, since_write, estimated_remaining, sessions, pushed,
                 invocations, lastResult, escaped, m_should_quit, m_is_paused,
                 m_stop_playback, m_timeout_active, m_current_song_duration,
                 m_current_song, m_current_index, m_songs, m_shuffled_songs,
                 m_is_shuffled, m_playlist_mutex, next_song, m_current_decoder,
                 decoder_left, decoder_eof, elapsed, to_elapsed, hotkeys, interrupted,
                 feeding, natural_exit, stopper, raced, last_call, last_song, platform>>

\* else if (!m_stop_playback.load()) start_completion_timeout()
PlaybackCheckTimeout ==
    /\ ~crashed
    /\ pc["pb"] = "pb_check2"
    /\ Goto("pb", IF ~m_stop_playback THEN "tmo_arm" ELSE "pb_done")
    /\ UNCHANGED <<crashed, secondary_buffer, is_playing, is_paused, should_stop,
                 pending_samples, write_cursor, completion_callback, eof_signaled,
                 callback_fired, total_samples_processed, buffer_mutex, callback_mutex,
                 hw_buffered, since_write, estimated_remaining, sessions, pushed,
                 invocations, lastResult, escaped, m_should_quit, m_is_paused,
                 m_advance_to_next, m_stop_playback, m_timeout_active,
                 m_current_song_duration, m_current_song, m_current_index, m_songs,
                 m_shuffled_songs, m_is_shuffled, m_playlist_mutex, next_song,
                 m_current_decoder, decoder_left, decoder_eof, elapsed, to_elapsed,
                 hotkeys, interrupted, feeding, natural_exit, stopper, raced, last_call,
                 last_song, platform>>

\* start_completion_timeout: m_timeout_active = true
TimeoutArm ==
    /\ ~crashed
    /\ pc["pb"] = "tmo_arm"
    /\ m_timeout_active' = TRUE
    /\ Goto("pb", "tmo_spawn")
    /\ UNCHANGED <<crashed, secondary_buffer, is_playing, is_paused, should_stop,
                 pending_samples, write_cursor, completion_callback, eof_signaled,
                 callback_fired, total_samples_processed, buffer_mutex, callback_mutex,
                 hw_buffered, since_write, estimated_remaining, sessions, pushed,
                 invocations, lastResult, escaped, m_should_quit, m_is_paused,
                 m_advance_to_next, m_stop_playback, m_current_song_duration,
                 m_current_song, m_current_index, m_songs, m_shuffled_songs,
                 m_is_shuffled, m_playlist_mutex, next_song, m_current_decoder,
                 decoder_left, decoder_eof, elapsed, to_elapsed, hotkeys, interrupted,
                 feeding, natural_exit, stopper, raced, last_call, last_song, platform>>

\* start_completion_timeout: join the old timeout thread, start the new one
TimeoutSpawn ==
    /\ ~crashed
    /\ pc["pb"] = "tmo_spawn"
    /\ pc["to"] \in {"none", "to_done"}
    /\ to_elapsed' = 0
    /\ pc' = [pc EXCEPT !["pb"] = "pb_done", !["to"] = "to_sleep"]
    /\ UNCHANGED ret
    /\ UNCHANGED <<crashed, secondary_buffer, is_playing, is_paused, should_stop,
                 pending_samples, write_cursor, completion_callback, eof_signaled,
                 callback_fired, total_samples_processed, buffer_mutex, callback_mutex,
                 hw_buffered, since_write, estimated_remaining, sessions, pushed,
                 invocations, lastResult, escaped, m_should_quit, m_is_paused,
                 m_advance_to_next, m_stop_playback, m_timeout_active,
                 m_current_song_duration, m_current_song, m_current_index, m_songs,
                 m_shuffled_songs, m_is_shuffled, m_playlist_mutex, next_song,
                 m_current_decoder, decoder_left, decoder_eof, elapsed, hotkeys,
                 interrupted, feeding, natural_exit, stopper, raced, last_call,
                 last_song, platform>>

(***************************************************************************)
(* The timeout thread                                                      *)
(***************************************************************************)

\* sleep_for(COMPLETION_TIMEOUT_SECONDS); if (m_timeout_active.load())
TimeoutWake ==
    /\ ~crashed
    /\ pc["to"] = "to_sleep"
    /\ to_elapsed >= COMPLETION_TIMEOUT_SECONDS
    /\ Goto("to", IF m_timeout_active THEN "to_advance" ELSE "to_done")
    /\ UNCHANGED <<crashed, secondary_buffer, is_playing, is_paused, should_stop,
                 pending_samples, write_cursor, completion_callback, eof_signaled,
                 callback_fired, total_samples_processed, buffer_mutex, callback_mutex,
                 hw_buffered, since_write, estimated_remaining, sessions, pushed,
                 invocations, lastResult, escaped, m_should_quit, m_is_paused,
                 m_advance_to_next, m_stop_playback, m_timeout_active,
                 m_current_song_duration, m_current_song, m_current_index, m_songs,
                 m_shuffled_songs, m_is_shuffled, m_playlist_mutex, next_song,
                 m_current_decoder, decoder_left, decoder_eof, elapsed, to_elapsed,
                 hotkeys, interrupted, feeding, natural_exit, stopper, raced, last_call,
                 last_song, platform>>

\* m_advance_to_next = true
TimeoutAdvance ==
    /\ ~crashed
    /\ pc["to"] = "to_advance"
    /\ m_advance_to_next' = TRUE
    /\ Goto("to", "to_deactivate")
    /\ UNCHANGED <<crashed, secondary_buffer, is_playing, is_paused, should_stop,
                 pending_samples, write_cursor, completion_callback, eof_signaled,
                 callback_fired, total_samples_processed, buffer_mutex, callback_mutex,
                 hw_buffered, since_write, estimated_remaining, sessions, pushed,
                 invocations, lastResult, escaped, m_should_quit, m_is_paused,
                 m_stop_playback, m_timeout_active, m_current_song_duration,
                 m_current_song, m_current_index, m_songs, m_shuffled_songs,
                 m_is_shuffled, m_playlist_mutex, next_song, m_current_decoder,
                 decoder_left, decoder_eof, elapsed, to_elapsed, hotkeys, interrupted,
                 feeding, natural_exit, stopper, raced, last_call, last_song, platform>>

\* m_timeout_active = false
TimeoutDeactivate ==
    /\ ~crashed
    /\ pc["to"] = "to_deactivate"
    /\ m_timeout_active' = FALSE
    /\ Goto("to", "to_done")
    /\ UNCHANGED <<crashed, secondary_buffer, is_playing, is_paused, should_stop,
                 pending_samples, write_cursor, completion_callback, eof_signaled,
                 callback_fired, total_samples_processed, buffer_mutex, callback_mutex,
                 hw_buffered, since_write, estimated_remaining, sessions, pushed,
                 invocations, lastResult, escaped, m_should_quit, m_is_paused,
                 m_advance_to_next, m_stop_playback, m_current_song_duration,
                 m_current_song, m_current_index, m_songs, m_shuffled_songs,
                 m_is_shuffled, m_playlist_mutex, next_song, m_current_decoder,
                 decoder_left, decoder_eof, elapsed, to_elapsed, hotkeys, interrupted,
                 feeding, natural_exit, stopper, raced, last_call, last_song, platform>>

(***************************************************************************)
(* MusicPlayer::run and ~MusicPlayer, the main thread                      *)
(***************************************************************************)

\* run: the first play_current_song(), made without m_playlist_mutex
RunPlayFirst ==
    /\ ~crashed
    /\ pc["main"] = "m_play0"
    /\ Call("main", "pcs_open", "m_loop")
    /\ UNCHANGED <<crashed, secondary_buffer, is_playing, is_paused, should_stop,
                 pending_samples, write_cursor, completion_callback, eof_signaled,
                 callback_fired, total_samples_processed, buffer_mutex, callback_mutex,
                 hw_buffered, since_write, estimated_remaining, sessions, pushed,
                 invocations, lastResult, escaped, m_should_quit, m_is_paused,
                 m_advance_to_next, m_stop_playback, m_timeout_active,
                 m_current_song_duration, m_current_song, m_current_index, m_songs,
                 m_shuffled_songs, m_is_shuffled, m_playlist_mutex, next_song,
                 m_current_decoder, decoder_left, decoder_eof, elapsed, to_elapsed,
                 hotkeys, interrupted, feeding, natural_exit, stopper, raced, last_call,
                 last_song, platform>>

\* run: while (!m_should_quit) { if (m_advance_to_next.exchange(false)) ...; sleep }
RunLoop ==
    /\ ~crashed
    /\ pc["main"] = "m_loop"
    /\ \/ /\ m_should_quit
          /\ Goto("main", "sd_flag")
          /\ UNCHANGED m_advance_to_next
       \/ /\ m_advance_to_next
          /\ m_advance_to_next' = FALSE
          /\ Goto("main", "hta_lock")
    /\ UNCHANGED <<crashed, secondary_buffer, is_playing, is_paused, should_stop,
                 pending_samples, write_cursor, completion_callback, eof_signaled,
                 callback_fired, total_samples_processed, buffer_mutex, callback_mutex,
                 hw_buffered, since_write, estimated_remaining, sessions, pushed,
                 invocations, lastResult, escaped, m_should_quit, m_is_paused,
                 m_stop_playback, m_timeout_active, m_current_song_duration,
                 m_current_song, m_current_index, m_songs, m_shuffled_songs,
                 m_is_shuffled, m_playlist_mutex, next_song, m_current_decoder,
                 decoder_left, decoder_eof, elapsed, to_elapsed, hotkeys, interrupted,
                 feeding, natural_exit, stopper, raced, last_call, last_song, platform>>

\* handle_track_advance: lock m_playlist_mutex, m_playlist->next(), stop_current_song()
\* (the early return of preview mode is not taken: m_preview_mode is false)
HandleTrackAdvance ==
    /\ ~crashed
    /\ pc["main"] = "hta_lock"
    /\ ~m_preview_mode
    /\ m_playlist_mutex = NoThread
    /\ m_playlist_mutex' = "main"
    /\ m_current_index' = PlaylistNext(m_current_index)
    /\ next_song' = SongAt(PlaylistNext(m_current_index))
    /\ Call("main", "scs_cancel", "hta_assign")
    /\ UNCHANGED <<crashed, secondary_buffer, is_playing, is_paused, should_stop,
                 pending_samples, write_cursor, completion_callback, eof_signaled,
                 callback_fired, total_samples_processed, buffer_mutex, callback_mutex,
                 hw_buffered, since_write, estimated_remaining, sessions, pushed,
                 invocations, lastResult, escaped, m_should_quit, m_is_paused,
                 m_advance_to_next, m_stop_playback, m_timeout_active,
                 m_current_song_duration, m_current_song, m_songs, m_shuffled_songs,
                 m_is_shuffled, m_current_decoder, decoder_left, decoder_eof, elapsed,
                 to_elapsed, hotkeys, interrupted, feeding, natural_exit, stopper,
                 raced, last_call, last_song, platform>>

\* handle_track_advance: m_current_song = next_song; play_current_song()
HandleTrackAdvancePlay ==
    /\ ~crashed
    /\ pc["main"] = "hta_assign"
    /\ m_current_song' = next_song
    /\ Call("main", "pcs_open", "hta_unlock")
    /\ UNCHANGED <<crashed, secondary_buffer, is_playing, is_paused, should_stop,
                 pending_samples, write_cursor, completion_callback, eof_signaled,
                 callback_fired, total_samples_processed, buffer_mutex, callback_mutex,
                 hw_buffered, since_write, estimated_remaining, sessions, pushed,
                 invocations, lastResult, escaped, m_should_quit, m_is_paused,
                 m_advance_to_next, m_stop_playback, m_timeout_active,
                 m_current_song_duration, m_current_index, m_songs, m_shuffled_songs,
                 m_is_shuffled, m_playlist_mutex, next_song, m_current_decoder,
                 decoder_left, decoder_eof, elapsed, to_elapsed, hotkeys, interrupted,
                 feeding, natural_exit, stopper, raced, last_call, last_song, platform>>

\* handle_track_advance returns: the lock_guard releases m_playlist_mutex
HandleTrackAdvanceReturn ==
    /\ ~crashed
    /\ pc["main"] = "hta_unlock"
    /\ m_playlist_mutex' = NoThread
    /\ Goto("main", "m_loop")
    /\ UNCHANGED <<crashed, secondary_buffer, is_playing, is_paused, should_stop,
                 pending_samples, write_cursor, completion_callback, eof_signaled,
                 callback_fired, total_samples_processed, buffer_mutex, callback_mutex,
                 hw_buffered, since_write, estimated_remaining, sessions, pushed,
                 invocations, lastResult, escaped, m_should_quit, m_is_paused,
                 m_advance_to_next, m_stop_playback, m_timeout_active,
                 m_current_song_duration, m_current_song, m_current_index, m_songs,
                 m_shuffled_songs, m_is_shuffled, next_song, m_current_decoder,
                 decoder_left, decoder_eof, elapsed, to_elapsed, hotkeys, interrupted,
                 feeding, natural_exit, stopper, raced, last_call, last_song, platform>>

\* shutdown: m_should_quit = true; m_audio_engine->stop()
ShutdownBegin ==
    /\ ~crashed
    /\ pc["main"] = "sd_flag"
    /\ m_should_quit' = TRUE
    /\ Call("main", "stop_flags", "sd_join_pb")
    /\ UNCHANGED <<crashed, secondary_buffer, is_playing, is_paused, should_stop,
                 pending_samples, write_cursor, completion_callback, eof_signaled,
                 callback_fired, total_samples_processed, buffer_mutex, callback_mutex,
                 hw_buffered, since_write, estimated_remaining, sessions, pushed,
                 invocations, lastResult, escaped, m_is_paused, m_advance_to_next,
                 m_stop_playback, m_timeout_active, m_current_song_duration,
                 m_current_song, m_current_index, m_songs, m_shuffled_songs,
                 m_is_shuffled, m_playlist_mutex, next_song, m_current_decoder,
                 decoder_left, decoder_eof, elapsed, to_elapsed, hotkeys, interrupted,
                 feeding, natural_exit, stopper, raced, last_call, last_song, platform>>

\* shutdown: join the playback thread; m_timeout_active = false
ShutdownJoinPlayback ==
    /\ ~crashed
    /\ pc["main"] = "sd_join_pb"
    /\ pc["pb"] \in {"none", "pb_done"}
    /\ m_timeout_active' = FALSE
    /\ pc' = [pc EXCEPT !["main"] = "sd_join_to", !["pb"] = "none"]
    /\ UNCHANGED ret
    /\ UNCHANGED <<crashed, secondary_buffer, is_playing, is_paused, should_stop,
                 pending_samples, write_cursor, completion_callback, eof_signaled,
                 callback_fired, total_samples_processed, buffer_mutex, callback_mutex,
                 hw_buffered, since_write, estimated_remaining, sessions, pushed,
                 invocations, lastResult, escaped, m_should_quit, m_is_paused,
                 m_advance_to_next, m_stop_playback, m_current_song_duration,
                 m_current_song, m_current_index, m_songs, m_shuffled_songs,
                 m_is_shuffled, m_playlist_mutex, next_song, m_current_decoder,
                 decoder_left, decoder_eof, elapsed, to_elapsed, hotkeys, interrupted,
                 feeding, natural_exit, stopper, raced, last_call, last_song, platform>>

\* shutdown: join the timeout thread; close and reset the decoder
ShutdownJoinTimeout ==
    /\ ~crashed
    /\ pc["main"] = "sd_join_to"
    /\ pc["to"] \in {"none", "to_done"}
    /\ m_current_decoder' = "null"
    /\ pc' = [pc EXCEPT !["main"] = "sd_hotkeys", !["to"] = "none"]
    /\ UNCHANGED ret
    /\ UNCHANGED <<crashed, secondary_buffer, is_playing, is_paused, should_stop,
                 pending_samples, write_cursor, completion_callback, eof_signaled,
                 callback_fired, total_samples_processed, buffer_mutex, callback_mutex,
                 hw_buffered, since_write, estimated_remaining, sessions, pushed,
                 invocations, lastResult, escaped, m_should_quit, m_is_paused,
                 m_advance_to_next, m_stop_playback, m_timeout_active,
                 m_current_song_duration, m_current_song, m_current_index, m_songs,
                 m_shuffled_songs, m_is_shuffled, m_playlist_mutex, next_song,
                 decoder_left, decoder_eof, elapsed, to_elapsed, hotkeys, interrupted,
                 feeding, natural_exit, stopper, raced, last_call, last_song, platform>>

\* shutdown: m_hotkey_handler->shutdown() joins the hotkey thread; then
\* m_audio_engine->shutdown() begins with stop()
ShutdownHotkeys ==
    /\ ~crashed
    /\ pc["main"] = "sd_hotkeys"
    /\ pc["hk"] = "hk_idle"
    /\ pc' = [pc EXCEPT !["main"] = "stop_flags", !["hk"] = "hk_stopped"]
    /\ ret' = [ret EXCEPT !["main"] = <<"sd_release">> \o @]
    /\ UNCHANGED <<crashed, secondary_buffer, is_playing, is_paused, should_stop,
                 pending_samples, write_cursor, completion_callback, eof_signaled,
                 callback_fired, total_samples_processed, buffer_mutex, callback_mutex,
                 hw_buffered, since_write, estimated_remaining, sessions, pushed,
                 invocations, lastResult, escaped, m_should_quit, m_is_paused,
                 m_advance_to_next, m_stop_playback, m_timeout_active,
                 m_current_song_duration, m_current_song, m_current_index, m_songs,
                 m_shuffled_songs, m_is_shuffled, m_playlist_mutex, next_song,
                 m_current_decoder, decoder_left, decoder_eof, elapsed, to_elapsed,
                 hotkeys, interrupted, feeding, natural_exit, stopper, raced, last_call,
                 last_song, platform>>

\* DirectSoundEngine::shutdown after stop(): secondary_buffer = nullptr
ShutdownRelease ==
    /\ ~crashed
    /\ pc["main"] = "sd_release"
    /\ secondary_buffer' = FALSE
    /\ Goto("main", "m_done")
    /\ UNCHANGED <<crashed, is_playing, is_paused, should_stop, pending_samples, write_cursor,
                 completion_callback, eof_signaled, callback_fired,
                 total_samples_processed, buffer_mutex, callback_mutex, hw_buffered,
                 since_write, estimated_remaining, sessions, pushed, invocations,
                 lastResult, escaped, m_should_quit, m_is_paused, m_advance_to_next,
                 m_stop_playback, m_timeout_active, m_current_song_duration,
                 m_current_song, m_current_index, m_songs, m_shuffled_songs,
                 m_is_shuffled, m_playlist_mutex, next_song, m_current_decoder,
                 decoder_left, decoder_eof, elapsed, to_elapsed, hotkeys, interrupted,
                 feeding, natural_exit, stopper, raced, last_call, last_song, platform>>

(***************************************************************************)
(* handle_hotkey, run by the hotkey thread                                 *)
(***************************************************************************)

\* run() has not returned from its first play_current_song()
InFirstPlay ==
    \/ pc["main"] = "m_play0"
    \/ /\ ret["main"] = <<"m_loop">>
       /\ pc["main"] \in {"pcs_open", "pcs_set_cb", "pcs_start", "pcs_thread"}

\* next_track / previous_track: lock m_playlist_mutex, move, stop_current_song()
Navigate(index) ==
    /\ ~crashed
    /\ pc["hk"] = "hk_idle"
    /\ hotkeys < MaxHotkeys
    /\ m_playlist_mutex = NoThread
    /\ m_playlist_mutex' = "hk"
    /\ hotkeys' = hotkeys + 1
    /\ interrupted' = TRUE
    /\ raced' = (raced \/ InFirstPlay)
    /\ m_current_index' = index
    /\ next_song' = SongAt(index)
    /\ Call("hk", "scs_cancel", "nt_assign")

NextTrack ==
    /\ Navigate(PlaylistNext(m_current_index))
    /\ UNCHANGED <<crashed, secondary_buffer, is_playing, is_paused, should_stop,
                 pending_samples, write_cursor, completion_callback, eof_signaled,
                 callback_fired, total_samples_processed, buffer_mutex, callback_mutex,
                 hw_buffered, since_write, estimated_remaining, sessions, pushed,
                 invocations, lastResult, escaped, m_should_quit, m_is_paused,
                 m_advance_to_next, m_stop_playback, m_timeout_active,
                 m_current_song_duration, m_current_song, m_songs, m_shuffled_songs,
                 m_is_shuffled, m_current_decoder, decoder_left, decoder_eof, elapsed,
                 to_elapsed, feeding, natural_exit, stopper, last_call, last_song,
                 platform>>

PreviousTrack ==
    /\ Navigate(PlaylistPrevious(m_current_index))
    /\ UNCHANGED <<crashed, secondary_buffer, is_playing, is_paused, should_stop,
                 pending_samples, write_cursor, completion_callback, eof_signaled,
                 callback_fired, total_samples_processed, buffer_mutex, callback_mutex,
                 hw_buffered, since_write, estimated_remaining, sessions, pushed,
                 invocations, lastResult, escaped, m_should_quit, m_is_paused,
                 m_advance_to_next, m_stop_playback, m_timeout_active,
                 m_current_song_duration, m_current_song, m_songs, m_shuffled_songs,
                 m_is_shuffled, m_current_decoder, decoder_left, decoder_eof, elapsed,
                 to_elapsed, feeding, natural_exit, stopper, last_call, last_song,
                 platform>>

\* next_track / previous_track: m_current_song = next_song; play_current_song()
NavigatePlay ==
    /\ ~crashed
    /\ pc["hk"] = "nt_assign"
    /\ m_current_song' = next_song
    /\ Call("hk", "pcs_open", "nt_unlock")
    /\ UNCHANGED <<crashed, secondary_buffer, is_playing, is_paused, should_stop,
                 pending_samples, write_cursor, completion_callback, eof_signaled,
                 callback_fired, total_samples_processed, buffer_mutex, callback_mutex,
                 hw_buffered, since_write, estimated_remaining, sessions, pushed,
                 invocations, lastResult, escaped, m_should_quit, m_is_paused,
                 m_advance_to_next, m_stop_playback, m_timeout_active,
                 m_current_song_duration, m_current_index, m_songs, m_shuffled_songs,
                 m_is_shuffled, m_playlist_mutex, next_song, m_current_decoder,
                 decoder_left, decoder_eof, elapsed, to_elapsed, hotkeys, interrupted,
                 feeding, natural_exit, stopper, raced, last_call, last_song, platform>>

\* next_track / previous_track return: the lock_guard releases m_playlist_mutex
NavigateReturn ==
    /\ ~crashed
    /\ pc["hk"] = "nt_unlock"
    /\ m_playlist_mutex' = NoThread
    /\ Goto("hk", "hk_idle")
    /\ UNCHANGED <<crashed, secondary_buffer, is_playing, is_paused, should_stop,
                 pending_samples, write_cursor, completion_callback, eof_signaled,
                 callback_fired, total_samples_processed, buffer_mutex, callback_mutex,
                 hw_buffered, since_write, estimated_remaining, sessions, pushed,
                 invocations, lastResult, escaped, m_should_quit, m_is_paused,
                 m_advance_to_next, m_stop_playback, m_timeout_active,
                 m_current_song_duration, m_current_song, m_current_index, m_songs,
                 m_shuffled_songs, m_is_shuffled, next_song, m_current_decoder,
                 decoder_left, decoder_eof, elapsed, to_elapsed, hotkeys, interrupted,
                 feeding, natural_exit, stopper, raced, last_call, last_song, platform>>

\* toggle_pause: if (engine->is_playing()) pause() else resume()
TogglePause ==
    /\ ~crashed
    /\ pc["hk"] = "hk_idle"
    /\ hotkeys < MaxHotkeys
    /\ hotkeys' = hotkeys + 1
    /\ is_paused' = (is_playing /\ ~is_paused)
    /\ Goto("hk", IF is_playing /\ ~is_paused THEN "tp_paused" ELSE "tp_resumed")
    /\ UNCHANGED <<crashed, secondary_buffer, is_playing, should_stop, pending_samples,
                 write_cursor, completion_callback, eof_signaled, callback_fired,
                 total_samples_processed, buffer_mutex, callback_mutex, hw_buffered,
                 since_write, estimated_remaining, sessions, pushed, invocations,
                 lastResult, escaped, m_should_quit, m_is_paused, m_advance_to_next,
                 m_stop_playback, m_timeout_active, m_current_song_duration,
                 m_current_song, m_current_index, m_songs, m_shuffled_songs,
                 m_is_shuffled, m_playlist_mutex, next_song, m_current_decoder,
                 decoder_left, decoder_eof, elapsed, to_elapsed, interrupted, feeding,
                 natural_exit, stopper, raced, last_call, last_song, platform>>

\* toggle_pause: m_is_paused = true / m_is_paused = false
TogglePauseFlag ==
    /\ ~crashed
    /\ pc["hk"] \in {"tp_paused", "tp_resumed"}
    /\ m_is_paused' = (pc["hk"] = "tp_paused")
    /\ Goto("hk", "hk_idle")
    /\ UNCHANGED <<crashed, secondary_buffer, is_playing, is_paused, should_stop,
                 pending_samples, write_cursor, completion_callback, eof_signaled,
                 callback_fired, total_samples_processed, buffer_mutex, callback_mutex,
                 hw_buffered, since_write, estimated_remaining, sessions, pushed,
                 invocations, lastResult, escaped, m_should_quit, m_advance_to_next,
                 m_stop_playback, m_timeout_active, m_current_song_duration,
                 m_current_song, m_current_index, m_songs, m_shuffled_songs,
                 m_is_shuffled, m_playlist_mutex, next_song, m_current_decoder,
                 decoder_left, decoder_eof, elapsed, to_elapsed, hotkeys, interrupted,
                 feeding, natural_exit, stopper, raced, last_call, last_song, platform>>

\* quit: m_should_quit = true
Quit ==
    /\ ~crashed
    /\ pc["hk"] = "hk_idle"
    /\ hotkeys < MaxHotkeys
    /\ hotkeys' = hotkeys + 1
    /\ interrupted' = TRUE
    /\ m_should_quit' = TRUE
    /\ UNCHANGED <<pc, ret>>
    /\ UNCHANGED <<crashed, secondary_buffer, is_playing, is_paused, should_stop,
                 pending_samples, write_cursor, completion_callback, eof_signaled,
                 callback_fired, total_samples_processed, buffer_mutex, callback_mutex,
                 hw_buffered, since_write, estimated_remaining, sessions, pushed,
                 invocations, lastResult, escaped, m_is_paused, m_advance_to_next,
                 m_stop_playback, m_timeout_active, m_current_song_duration,
                 m_current_song, m_current_index, m_songs, m_shuffled_songs,
                 m_is_shuffled, m_playlist_mutex, next_song, m_current_decoder,
                 decoder_left, decoder_eof, elapsed, to_elapsed, feeding, natural_exit,
                 stopper, raced, last_call, last_song, platform>>

(***************************************************************************)
(* The wall clock: one tick is one second of steady_clock                  *)
(***************************************************************************)

Tick ==
    /\ ~crashed
    /\ \/ pc["pb"] = "pb_loop" /\ elapsed < MaxDuration
       \/ pc["to"] = "to_sleep" /\ to_elapsed < COMPLETION_TIMEOUT_SECONDS
    /\ elapsed' = IF pc["pb"] = "pb_loop" THEN Min(elapsed + 1, MaxDuration) ELSE elapsed
    /\ to_elapsed' = IF pc["to"] = "to_sleep"
                       THEN Min(to_elapsed + 1, COMPLETION_TIMEOUT_SECONDS)
                       ELSE to_elapsed
    /\ UNCHANGED <<pc, ret>>
    /\ UNCHANGED <<crashed, secondary_buffer, is_playing, is_paused, should_stop,
                 pending_samples, write_cursor, completion_callback, eof_signaled,
                 callback_fired, total_samples_processed, buffer_mutex, callback_mutex,
                 hw_buffered, since_write, estimated_remaining, sessions, pushed,
                 invocations, lastResult, escaped, m_should_quit, m_is_paused,
                 m_advance_to_next, m_stop_playback, m_timeout_active,
                 m_current_song_duration, m_current_song, m_current_index, m_songs,
                 m_shuffled_songs, m_is_shuffled, m_playlist_mutex, next_song,
                 m_current_decoder, decoder_left, decoder_eof, hotkeys, interrupted,
                 feeding, natural_exit, stopper, raced, last_call, last_song, platform>>

(***************************************************************************)
(* Initial states and specifications                                       *)
(***************************************************************************)

\* the state after construction, before any thread of the scenario has run
InitCommon ==
    /\ ret = [t \in Threads |-> <<>>]
    /\ crashed = FALSE
    /\ secondary_buffer = FALSE
    /\ is_playing = FALSE
    /\ is_paused = FALSE
    /\ should_stop = FALSE
    /\ pending_samples = 0
    /\ write_cursor = 0
    /\ completion_callback = "null"
    /\ eof_signaled = FALSE
    /\ callback_fired = FALSE
    /\ total_samples_processed = 0
    /\ buffer_mutex = NoThread
    /\ callback_mutex = NoThread
    /\ hw_buffered = 0
    /\ since_write = 0
    /\ estimated_remaining = 0
    /\ sessions = 0
    /\ pushed = 0
    /\ invocations = 0
    /\ lastResult = "none"
    /\ escaped = FALSE
    /\ m_should_quit = FALSE
    /\ m_is_paused = FALSE
    /\ m_advance_to_next = FALSE
    /\ m_stop_playback = FALSE
    /\ m_timeout_active = FALSE
    /\ m_current_song_duration = 0
    /\ m_current_song = 0
    /\ m_current_index = 0
    /\ m_playlist_mutex = NoThread
    /\ next_song = 0
    /\ m_current_decoder = "null"
    /\ decoder_left = 0
    /\ decoder_eof = FALSE
    /\ elapsed = 0
    /\ to_elapsed = 0
    /\ hotkeys = 0
    /\ interrupted = FALSE
    /\ feeding = FALSE
    /\ natural_exit = FALSE
    /\ stopper = NoThread
    /\ raced = FALSE

\* load_directory(): add_song for every file, then shuffle(); the songs are
\* numbered in playing order
LoadedPlaylist ==
    /\ m_songs = [i \in 1..NumSongs |-> i]
    /\ m_shuffled_songs = [i \in 1..NumSongs |-> i]
    /\ m_is_shuffled = TRUE
    /\ last_call = "none"
    /\ last_song = 0

\* a DirectSoundEngine alone, driven by a controller and client threads
EngineInit ==
    /\ InitCommon
    /\ LoadedPlaylist
    /\ platform = "windows"
    /\ pc = [t \in Threads |->
               IF t \in Clients THEN "idle" ELSE IF t = "ctl" THEN "ctl_idle" ELSE "none"]

\* a MusicPlayer after initialize() and load_directory(), entering run()
Init ==
    /\ InitCommon
    /\ LoadedPlaylist
    /\ platform = "windows"
    /\ pc = [t \in Threads |->
               IF t = "main" THEN "m_play0" ELSE IF t = "hk" THEN "hk_idle" ELSE "none"]

\* the steps of the engine, by any thread
EngineStep ==
    \/ \E t \in Threads :
         \/ SignalEofStore(t)
         \/ SignalEofCheck(t)
         \/ FireCompletionCallback(t)
         \/ StopFlags(t)
         \/ StopClearPending(t)
         \/ StopClearCallback(t)
         \/ StopJoin(t)
    \/ EnginePlaybackLoop
    \/ UpdateBuffer
    \/ UpdateBufferFailed

EngineNext ==
    \/ EngineStep
    \/ \E t \in Threads : TestCallbackReturn(t)
    \/ \E c \in Clients : ClientWrite(c) \/ ClientSignalEof(c)
    \/ CtlRegister
    \/ CtlStart
    \/ CtlStop
    \/ CtlPauseResume

EngineSpec == EngineInit /\ [][EngineNext]_vars

CallbackStep ==
    \E t \in Threads :
      \/ HandlePlaybackCompletionCancel(t)
      \/ HandlePlaybackCompletionAdvance(t)

PlayStep ==
    \E t \in {"main", "hk"} :
      \/ PlayOpen(t)
      \/ PlaySetCallback(t)
      \/ PlayStart(t)
      \/ PlayThread(t)

StopStep ==
    \E t \in {"main", "hk"} :
      \/ StopCancelTimeout(t)
      \/ StopResetAdvance(t)
      \/ StopSetFlag(t)
      \/ StopJoinPlayback(t)
      \/ StopCloseDecoder(t)
      \/ StopJoinTimeout(t)
      \/ StopClearFlag(t)
      \/ StopResetDecoder(t)
      \/ StopClearRegistration(t)

PlaybackStep ==
    \/ PlaybackBegin
    \/ PlaybackIterate
    \/ PlaybackSignal
    \/ PlaybackCheckDuration
    \/ PlaybackAdvance
    \/ PlaybackCheckTimeout

TimeoutStep ==
    \/ TimeoutArm
    \/ TimeoutSpawn
    \/ TimeoutWake
    \/ TimeoutAdvance
    \/ TimeoutDeactivate

MainStep ==
    \/ RunPlayFirst
    \/ RunLoop
    \/ HandleTrackAdvance
    \/ HandleTrackAdvancePlay
    \/ HandleTrackAdvanceReturn

ShutdownStep ==
    \/ ShutdownBegin
    \/ ShutdownJoinPlayback
    \/ ShutdownJoinTimeout
    \/ ShutdownHotkeys
    \/ ShutdownRelease

HotkeyStep ==
    \/ NextTrack
    \/ PreviousTrack
    \/ NavigatePlay
    \/ NavigateReturn
    \/ TogglePause
    \/ TogglePauseFlag
    \/ Quit

Next ==
    \/ EngineStep
    \/ CallbackStep
    \/ PlayStep
    \/ StopStep
    \/ PlaybackStep
    \/ TimeoutStep
    \/ MainStep
    \/ ShutdownStep
    \/ HotkeyStep
    \/ Tick

Spec == Init /\ [][Next]_vars

\* the player when no hotkey arrives
AutoNext ==
    \/ EngineStep
    \/ CallbackStep
    \/ PlayStep
    \/ StopStep
    \/ PlaybackStep
    \/ MainStep
    \/ Tick

\* a drain tick that moves samples to the hardware buffer
Drain == UpdateBuffer /\ pending_samples' < pending_samples

\* the operating system schedules every runnable thread again and again, the
\* playback thread keeps iterating and the sound card keeps consuming
AutoFairness ==
    /\ \A t \in {"main", "pb", "eng"} : WF_vars(AutoNext /\ pc'[t] # pc[t])
    /\ SF_vars(PlaybackIterate)
    /\ SF_vars(Drain)

SpecAuto == Init /\ [][AutoNext]_vars /\ AutoFairness

\* quit pressed before any other command; it leaves the other commands to come
QuitFirst ==
    /\ ~crashed
    /\ pc["hk"] = "hk_idle"
    /\ hotkeys = 0
    /\ ~m_should_quit
    /\ interrupted' = TRUE
    /\ m_should_quit' = TRUE
    /\ UNCHANGED <<pc, ret>>
    /\ UNCHANGED <<crashed, secondary_buffer, is_playing, is_paused, should_stop,
                 pending_samples, write_cursor, completion_callback, eof_signaled,
                 callback_fired, total_samples_processed, buffer_mutex, callback_mutex,
                 hw_buffered, since_write, estimated_remaining, sessions, pushed,
                 invocations, lastResult, escaped, m_is_paused, m_advance_to_next,
                 m_stop_playback, m_timeout_active, m_current_song_duration,
                 m_current_song, m_current_index, m_songs, m_shuffled_songs,
                 m_is_shuffled, m_playlist_mutex, next_song, m_current_decoder,
                 decoder_left, decoder_eof, elapsed, to_elapsed, hotkeys, feeding,
                 natural_exit, stopper, raced, last_call, last_song, platform>>

\* the player when the user quits and may press next while it shuts down
QuitNext ==
    \/ AutoNext
    \/ ShutdownStep
    \/ QuitFirst
    \/ m_should_quit /\ NextTrack
    \/ NavigatePlay
    \/ NavigateReturn

QuitSpec == Init /\ [][QuitNext]_vars


(***************************************************************************)
(* AlsaAudioEngine (src/src/linux_hotkey_handler.cpp, second half), the    *)
(* engine create_audio_engine() builds on Linux.  Its fields have the      *)
(* names of DirectSoundEngine's and its fire_completion_callback is the    *)
(* same code; the drain thread is "eng" at the labels al_*.  The queue is   *)
(* counted in samples, the device in frames of Channels samples.  The      *)
(* harness has called initialize().                                        *)
(***************************************************************************)
\* period_size * format.channels: the most samples one drain tick writes
PeriodSamples == 2

\* (buffer_samples * 1000) / format.sample_rate, buffer_samples being
\* buffer_size * format.channels: the playing time of the whole ring buffer
\* counted in samples
EstimatedRemaining == (BufferFrames * Channels) \div FramesPerTick

\* the time the device needs to play n frames
PlayingTime(n) == (n + FramesPerTick - 1) \div FramesPerTick

\* is_audio_playback_complete_by_time
IsAudioPlaybackCompleteByTime == since_write >= estimated_remaining

\* a check_completion that does not look at the clock
AlsaCompletionConditionUntimed(eof, pending, time_elapsed) ==
    CompletionCondition(eof, pending)

\* check_completion: eof_signaled && pending_samples.empty() && time_elapsed
AlsaCompletionCondition(eof, pending, time_elapsed) ==
    CompletionCondition(eof, pending) /\ time_elapsed

\* Impl::playback_loop
AlsaPlaybackLoop ==
    /\ ~crashed
    /\ pc["eng"] = "al_loop"
    /\ \/ should_stop
       \/ is_playing /\ ~is_paused
    /\ Goto("eng", IF should_stop THEN "al_exit" ELSE "al_update")
    /\ UNCHANGED <<crashed, secondary_buffer, is_playing, is_paused, should_stop,
                 pending_samples, write_cursor, completion_callback, eof_signaled,
                 callback_fired, total_samples_processed, buffer_mutex, callback_mutex,
                 hw_buffered, since_write, estimated_remaining, sessions, pushed,
                 invocations, lastResult, escaped, m_should_quit, m_is_paused,
                 m_advance_to_next, m_stop_playback, m_timeout_active,
                 m_current_song_duration, m_current_song, m_current_index, m_songs,
                 m_shuffled_songs, m_is_shuffled, m_playlist_mutex, next_song,
                 m_current_decoder, decoder_left, decoder_eof, elapsed, to_elapsed,
                 hotkeys, interrupted, feeding, natural_exit, stopper, raced, last_call,
                 last_song, platform>>

\* Impl::update_buffer: one drain tick, a critical section on buffer_mutex.
\* avail < 0 is snd_pcm_avail reporting an underrun (-EPIPE) or another error.
AlsaUpdateBuffer ==
    /\ ~crashed
    /\ pc["eng"] = "al_update"
    /\ buffer_mutex = NoThread
    /\ IF pending_samples = 0
         THEN /\ IF AlsaCompletionCondition(eof_signaled, pending_samples,
                                            IsAudioPlaybackCompleteByTime)
                   THEN /\ buffer_mutex' = "eng"
                        /\ Call("eng", "fire_lock", "al_loop")
                   ELSE /\ Goto("eng", "al_loop")
                        /\ UNCHANGED buffer_mutex
              /\ UNCHANGED <<pending_samples, total_samples_processed, hw_buffered,
                             since_write, estimated_remaining>>
         ELSE /\ UNCHANGED buffer_mutex
              /\ \E avail \in (-1)..(BufferFrames - hw_buffered) :
                   IF avail < 0
                     THEN /\ Goto("eng", "al_fault")
                          /\ UNCHANGED <<pending_samples, total_samples_processed,
                                         hw_buffered, since_write, estimated_remaining>>
                     ELSE LET samples_to_write ==
                                  Min(avail, Min(pending_samples, PeriodSamples))
                          IN IF samples_to_write = 0
                               THEN /\ Goto("eng", "al_loop")
                                    /\ UNCHANGED <<pending_samples, total_samples_processed,
                                                   hw_buffered, since_write,
                                                   estimated_remaining>>
                               ELSE \* snd_pcm_writei(.., samples_to_write / channels)
                                    \E frames_written \in
                                          (-1)..Min(samples_to_write \div Channels,
                                                    BufferFrames - hw_buffered) :
                                      IF frames_written < 0
                                        THEN /\ Goto("eng", "al_fault")
                                             /\ UNCHANGED <<pending_samples,
                                                            total_samples_processed,
                                                            hw_buffered, since_write,
                                                            estimated_remaining>>
                                        ELSE LET samples_written ==
                                                     frames_written * Channels
                                             IN /\ total_samples_processed' =
                                                     Min(total_samples_processed
                                                           + samples_written, MaxProcessed)
                                                /\ pending_samples' =
                                                     pending_samples - samples_written
                                                /\ hw_buffered' = hw_buffered + frames_written
                                                /\ since_write' = 0
                                                /\ estimated_remaining' = EstimatedRemaining
                                                /\ Goto("eng", "al_loop")
    /\ UNCHANGED <<crashed, secondary_buffer, is_playing, is_paused, should_stop, write_cursor,
                 completion_callback, eof_signaled, callback_fired, callback_mutex,
                 sessions, pushed, invocations, lastResult, escaped, m_should_quit,
                 m_is_paused, m_advance_to_next, m_stop_playback, m_timeout_active,
                 m_current_song_duration, m_current_song, m_current_index, m_songs,
                 m_shuffled_songs, m_is_shuffled, m_playlist_mutex, next_song,
                 m_current_decoder, decoder_left, decoder_eof, elapsed, to_elapsed,
                 hotkeys, interrupted, feeding, natural_exit, stopper, raced, last_call,
                 last_song, platform>>

\* update_buffer: return after snd_pcm_prepare / snd_pcm_resume
AlsaUpdateBufferFailed ==
    /\ ~crashed
    /\ pc["eng"] = "al_fault"
    /\ Goto("eng", AfterFault("al_loop", "al_exit"))
    /\ UNCHANGED <<crashed, secondary_buffer, is_playing, is_paused, should_stop,
                 pending_samples, write_cursor, completion_callback, eof_signaled,
                 callback_fired, total_samples_processed, buffer_mutex, callback_mutex,
                 hw_buffered, since_write, estimated_remaining, sessions, pushed,
                 invocations, lastResult, escaped, m_should_quit, m_is_paused,
                 m_advance_to_next, m_stop_playback, m_timeout_active,
                 m_current_song_duration, m_current_song, m_current_index, m_songs,
                 m_shuffled_songs, m_is_shuffled, m_playlist_mutex, next_song,
                 m_current_decoder, decoder_left, decoder_eof, elapsed, to_elapsed,
                 hotkeys, interrupted, feeding, natural_exit, stopper, raced, last_call,
                 last_song, platform>>

\* write_samples
AlsaWriteSamples(c) ==
    /\ ~crashed
    /\ pc[c] = "idle"
    /\ sessions >= 1
    /\ \E n \in 1..MaxChunk :
         /\ pushed + n <= MaxPushed
         /\ WriteSamples(n)
         /\ pushed' = pushed + n
    /\ UNCHANGED <<pc, ret, crashed, secondary_buffer, is_playing, is_paused, should_stop,
                 write_cursor, completion_callback, eof_signaled, callback_fired,
                 total_samples_processed, buffer_mutex, callback_mutex, hw_buffered,
                 since_write, estimated_remaining, sessions, invocations, lastResult,
                 escaped, m_should_quit, m_is_paused, m_advance_to_next,
                 m_stop_playback, m_timeout_active, m_current_song_duration,
                 m_current_song, m_current_index, m_songs, m_shuffled_songs,
                 m_is_shuffled, m_playlist_mutex, next_song, m_current_decoder,
                 decoder_left, decoder_eof, elapsed, to_elapsed, hotkeys, interrupted,
                 feeding, natural_exit, stopper, raced, last_call, last_song, platform>>

\* signal_eof: eof_signaled = true
AlsaSignalEof(c) ==
    /\ ~crashed
    /\ pc[c] = "idle"
    /\ sessions >= 1
    /\ eof_signaled' = TRUE
    /\ Call(c, "al_se_check", "idle")
    /\ UNCHANGED <<crashed, secondary_buffer, is_playing, is_paused, should_stop,
                 pending_samples, write_cursor, completion_callback, callback_fired,
                 total_samples_processed, buffer_mutex, callback_mutex, hw_buffered,
                 since_write, estimated_remaining, sessions, pushed, invocations,
                 lastResult, escaped, m_should_quit, m_is_paused, m_advance_to_next,
                 m_stop_playback, m_timeout_active, m_current_song_duration,
                 m_current_song, m_current_index, m_songs, m_shuffled_songs,
                 m_is_shuffled, m_playlist_mutex, next_song, m_current_decoder,
                 decoder_left, decoder_eof, elapsed, to_elapsed, hotkeys, interrupted,
                 feeding, natural_exit, stopper, raced, last_call, last_song, platform>>

\* signal_eof: lock buffer_mutex, check_completion
AlsaSignalEofCheck(c) ==
    /\ ~crashed
    /\ pc[c] = "al_se_check"
    /\ buffer_mutex = NoThread
    /\ IF AlsaCompletionCondition(eof_signaled, pending_samples,
                                  IsAudioPlaybackCompleteByTime)
         THEN /\ buffer_mutex' = c
              /\ Goto(c, "fire_lock")
         ELSE /\ Return(c)
              /\ UNCHANGED buffer_mutex
    /\ UNCHANGED <<crashed, secondary_buffer, is_playing, is_paused, should_stop,
                 pending_samples, write_cursor, completion_callback, eof_signaled,
                 callback_fired, total_samples_processed, callback_mutex, hw_buffered,
                 since_write, estimated_remaining, sessions, pushed, invocations,
                 lastResult, escaped, m_should_quit, m_is_paused, m_advance_to_next,
                 m_stop_playback, m_timeout_active, m_current_song_duration,
                 m_current_song, m_current_index, m_songs, m_shuffled_songs,
                 m_is_shuffled, m_playlist_mutex, next_song, m_current_decoder,
                 decoder_left, decoder_eof, elapsed, to_elapsed, hotkeys, interrupted,
                 feeding, natural_exit, stopper, raced, last_call, last_song, platform>>

\* initialize(format) succeeded, then set_completion_callback(counting lambda)
AlsaRegister ==
    /\ ~crashed
    /\ pc["ctl"] = "ctl_idle"
    /\ pc["eng"] = "none"
    /\ completion_callback = "null"
    /\ SetCompletionCallback("test")
    /\ UNCHANGED <<pc, ret, crashed, secondary_buffer, is_playing, is_paused, should_stop,
                 pending_samples, write_cursor, eof_signaled, callback_fired,
                 total_samples_processed, buffer_mutex, callback_mutex, hw_buffered,
                 since_write, estimated_remaining, sessions, pushed, invocations,
                 lastResult, escaped, m_should_quit, m_is_paused, m_advance_to_next,
                 m_stop_playback, m_timeout_active, m_current_song_duration,
                 m_current_song, m_current_index, m_songs, m_shuffled_songs,
                 m_is_shuffled, m_playlist_mutex, next_song, m_current_decoder,
                 decoder_left, decoder_eof, elapsed, to_elapsed, hotkeys, interrupted,
                 feeding, natural_exit, stopper, raced, last_call, last_song, platform>>

\* AlsaAudioEngine::start after snd_pcm_prepare succeeded
AlsaStart ==
    /\ ~crashed
    /\ pc["ctl"] = "ctl_idle"
    /\ pc["eng"] = "none"
    /\ completion_callback # "null"
    /\ \A c \in Clients : pc[c] = "idle"
    /\ sessions < MaxSessions
    /\ sessions' = sessions + 1
    /\ eof_signaled' = FALSE
    /\ callback_fired' = FALSE
    /\ total_samples_processed' = 0
    /\ is_playing' = TRUE
    /\ should_stop' = FALSE
    /\ pushed' = 0
    /\ invocations' = 0
    /\ pc' = [pc EXCEPT !["eng"] = "al_loop"]
    /\ UNCHANGED <<ret, crashed, secondary_buffer, is_paused, pending_samples, write_cursor,
                 completion_callback, buffer_mutex, callback_mutex, hw_buffered,
                 since_write, estimated_remaining, lastResult, escaped, m_should_quit,
                 m_is_paused, m_advance_to_next, m_stop_playback, m_timeout_active,
                 m_current_song_duration, m_current_song, m_current_index, m_songs,
                 m_shuffled_songs, m_is_shuffled, m_playlist_mutex, next_song,
                 m_current_decoder, decoder_left, decoder_eof, elapsed, to_elapsed,
                 hotkeys, interrupted, feeding, natural_exit, stopper, raced, last_call,
                 last_song, platform>>

\* AlsaAudioEngine::stop: is_playing = false; should_stop = true
AlsaStopFlags ==
    /\ ~crashed
    /\ pc["ctl"] = "ctl_idle"
    /\ pc["eng"] # "none"
    /\ is_playing' = FALSE
    /\ should_stop' = TRUE
    /\ Goto("ctl", "al_stop_join")
    /\ UNCHANGED <<crashed, secondary_buffer, is_paused, pending_samples, write_cursor,
                 completion_callback, eof_signaled, callback_fired,
                 total_samples_processed, buffer_mutex, callback_mutex, hw_buffered,
                 since_write, estimated_remaining, sessions, pushed, invocations,
                 lastResult, escaped, m_should_quit, m_is_paused, m_advance_to_next,
                 m_stop_playback, m_timeout_active, m_current_song_duration,
                 m_current_song, m_current_index, m_songs, m_shuffled_songs,
                 m_is_shuffled, m_playlist_mutex, next_song, m_current_decoder,
                 decoder_left, decoder_eof, elapsed, to_elapsed, hotkeys, interrupted,
                 feeding, natural_exit, stopper, raced, last_call, last_song, platform>>

\* stop: join the drain thread, snd_pcm_drop
AlsaStopJoin ==
    /\ ~crashed
    /\ pc["ctl"] = "al_stop_join"
    /\ pc["eng"] = "al_exit"
    /\ hw_buffered' = 0
    /\ pc' = [pc EXCEPT !["ctl"] = "al_stop_clear_pending", !["eng"] = "none"]
    /\ UNCHANGED <<ret, crashed, secondary_buffer, is_playing, is_paused, should_stop,
                 pending_samples, write_cursor, completion_callback, eof_signaled,
                 callback_fired, total_samples_processed, buffer_mutex, callback_mutex,
                 since_write, estimated_remaining, sessions, pushed, invocations,
                 lastResult, escaped, m_should_quit, m_is_paused, m_advance_to_next,
                 m_stop_playback, m_timeout_active, m_current_song_duration,
                 m_current_song, m_current_index, m_songs, m_shuffled_songs,
                 m_is_shuffled, m_playlist_mutex, next_song, m_current_decoder,
                 decoder_left, decoder_eof, elapsed, to_elapsed, hotkeys, interrupted,
                 feeding, natural_exit, stopper, raced, last_call, last_song, platform>>

\* stop: { lock buffer_mutex; pending_samples.clear(); }
AlsaStopClearPending ==
    /\ ~crashed
    /\ pc["ctl"] = "al_stop_clear_pending"
    /\ buffer_mutex = NoThread
    /\ pending_samples' = 0
    /\ Goto("ctl", "al_stop_clear_cb")
    /\ UNCHANGED <<crashed, secondary_buffer, is_playing, is_paused, should_stop, write_cursor,
                 completion_callback, eof_signaled, callback_fired,
                 total_samples_processed, buffer_mutex, callback_mutex, hw_buffered,
                 since_write, estimated_remaining, sessions, pushed, invocations,
                 lastResult, escaped, m_should_quit, m_is_paused, m_advance_to_next,
                 m_stop_playback, m_timeout_active, m_current_song_duration,
                 m_current_song, m_current_index, m_songs, m_shuffled_songs,
                 m_is_shuffled, m_playlist_mutex, next_song, m_current_decoder,
                 decoder_left, decoder_eof, elapsed, to_elapsed, hotkeys, interrupted,
                 feeding, natural_exit, stopper, raced, last_call, last_song, platform>>

\* stop: { lock callback_mutex; completion_callback = nullptr; }
AlsaStopClearCallback ==
    /\ ~crashed
    /\ pc["ctl"] = "al_stop_clear_cb"
    /\ callback_mutex = NoThread
    /\ completion_callback' = "null"
    /\ Goto("ctl", "ctl_idle")
    /\ UNCHANGED <<crashed, secondary_buffer, is_playing, is_paused, should_stop,
                 pending_samples, write_cursor, eof_signaled, callback_fired,
                 total_samples_processed, buffer_mutex, callback_mutex, hw_buffered,
                 since_write, estimated_remaining, sessions, pushed, invocations,
                 lastResult, escaped, m_should_quit, m_is_paused, m_advance_to_next,
                 m_stop_playback, m_timeout_active, m_current_song_duration,
                 m_current_song, m_current_index, m_songs, m_shuffled_songs,
                 m_is_shuffled, m_playlist_mutex, next_song, m_current_decoder,
                 decoder_left, decoder_eof, elapsed, to_elapsed, hotkeys, interrupted,
                 feeding, natural_exit, stopper, raced, last_call, last_song, platform>>

\* pause() / resume()
AlsaPauseResume ==
    /\ ~crashed
    /\ pc["ctl"] = "ctl_idle"
    /\ pc["eng"] # "none"
    /\ is_paused' = ~is_paused
    /\ UNCHANGED <<pc, ret, crashed, secondary_buffer, is_playing, should_stop,
                 pending_samples, write_cursor, completion_callback, eof_signaled,
                 callback_fired, total_samples_processed, buffer_mutex, callback_mutex,
                 hw_buffered, since_write, estimated_remaining, sessions, pushed,
                 invocations, lastResult, escaped, m_should_quit, m_is_paused,
                 m_advance_to_next, m_stop_playback, m_timeout_active,
                 m_current_song_duration, m_current_song, m_current_index, m_songs,
                 m_shuffled_songs, m_is_shuffled, m_playlist_mutex, next_song,
                 m_current_decoder, decoder_left, decoder_eof, elapsed, to_elapsed,
                 hotkeys, interrupted, feeding, natural_exit, stopper, raced, last_call,
                 last_song, platform>>

\* one clock tick (since_write saturates above the estimate): the device plays FramesPerTick frames unless
\* snd_pcm_pause(pcm_handle, 1) holds it
AlsaTick ==
    /\ ~crashed
    /\ since_write <= EstimatedRemaining \/ (hw_buffered > 0 /\ ~is_paused)
    /\ since_write' = Min(since_write + 1, EstimatedRemaining + 1)
    /\ hw_buffered' = IF is_paused \/ hw_buffered < FramesPerTick
                        THEN (IF is_paused THEN hw_buffered ELSE 0)
                        ELSE hw_buffered - FramesPerTick
    /\ UNCHANGED <<pc, ret, crashed, secondary_buffer, is_playing, is_paused, should_stop,
                 pending_samples, write_cursor, completion_callback, eof_signaled,
                 callback_fired, total_samples_processed, buffer_mutex, callback_mutex,
                 estimated_remaining, sessions, pushed, invocations, lastResult,
                 escaped, m_should_quit, m_is_paused, m_advance_to_next,
                 m_stop_playback, m_timeout_active, m_current_song_duration,
                 m_current_song, m_current_index, m_songs, m_shuffled_songs,
                 m_is_shuffled, m_playlist_mutex, next_song, m_current_decoder,
                 decoder_left, decoder_eof, elapsed, to_elapsed, hotkeys, interrupted,
                 feeding, natural_exit, stopper, raced, last_call, last_song, platform>>

AlsaNext ==
    \/ AlsaPlaybackLoop
    \/ AlsaUpdateBuffer
    \/ AlsaUpdateBufferFailed
    \/ \E t \in Threads : FireCompletionCallback(t) \/ TestCallbackReturn(t)
    \/ \E c \in Clients : AlsaWriteSamples(c) \/ AlsaSignalEof(c) \/ AlsaSignalEofCheck(c)
    \/ AlsaRegister
    \/ AlsaStart
    \/ AlsaStopFlags
    \/ AlsaStopJoin
    \/ AlsaStopClearPending
    \/ AlsaStopClearCallback
    \/ AlsaPauseResume
    \/ AlsaTick

\* an AlsaAudioEngine alone, driven by a controller and client threads
AlsaInit ==
    /\ InitCommon
    /\ LoadedPlaylist
    /\ platform = "linux"
    /\ pc = [t \in Threads |->
               IF t \in Clients THEN "idle" ELSE IF t = "ctl" THEN "ctl_idle" ELSE "none"]

AlsaSpec == AlsaInit /\ [][AlsaNext]_vars

\* the engine of either platform, driven by a controller and client threads
SinkNext ==
    \/ platform = "windows" /\ EngineNext
    \/ platform = "linux" /\ AlsaNext

SinkSpec == (EngineInit \/ AlsaInit) /\ [][SinkNext]_vars

\* the ALSA engine under fair scheduling: the drain thread and every thread
\* inside an engine call keep running, the device keeps playing, and
\* snd_pcm_avail and snd_pcm_writei do not refuse for ever what can be written
AlsaSpecFair ==
    /\ AlsaInit
    /\ [][AlsaNext]_vars
    /\ SF_vars(AlsaNext /\ pc'["eng"] # pc["eng"])
    /\ SF_vars(AlsaUpdateBuffer /\ pending_samples' < pending_samples)
    /\ SF_vars(AlsaTick /\ hw_buffered' < hw_buffered)
    /\ \A c \in Clients : SF_vars(AlsaNext /\ pc[c] # "idle" /\ pc'[c] # pc[c])

(***************************************************************************)
(* MockAudioEngine (src/unnamed/part_013), the engine of the               *)
(* CallbackArchitecture tests.  Test threads call write_samples,           *)
(* signal_eof and drain_all_buffers; the test body registers the callback  *)
(* and calls start and stop.  The mock has no drain thread.                *)
(***************************************************************************)

\* write_samples: lock m_buffer_mutex, append, m_total_samples_processed += size
MockWriteSamples(c) ==
    /\ ~crashed
    /\ pc[c] = "idle"
    /\ sessions >= 1
    /\ \E n \in 1..MaxChunk :
         /\ pushed + n <= MaxPushed
         /\ WriteSamples(n)
         /\ pushed' = pushed + n
         /\ total_samples_processed' = Min(total_samples_processed + n, MaxProcessed)
    /\ UNCHANGED <<pc, ret, crashed, secondary_buffer, is_playing, is_paused, should_stop,
                 write_cursor, completion_callback, eof_signaled, callback_fired,
                 buffer_mutex, callback_mutex, hw_buffered, since_write,
                 estimated_remaining, sessions, invocations, lastResult, escaped,
                 m_should_quit, m_is_paused, m_advance_to_next, m_stop_playback,
                 m_timeout_active, m_current_song_duration, m_current_song,
                 m_current_index, m_songs, m_shuffled_songs, m_is_shuffled,
                 m_playlist_mutex, next_song, m_current_decoder, decoder_left,
                 decoder_eof, elapsed, to_elapsed, hotkeys, interrupted, feeding,
                 natural_exit, stopper, raced, last_call, last_song, platform>>

\* signal_eof: m_eof_signaled = true
MockSignalEof(c) ==
    /\ ~crashed
    /\ pc[c] = "idle"
    /\ sessions >= 1
    /\ eof_signaled' = TRUE
    /\ Goto(c, "mk_se_lock")
    /\ UNCHANGED <<crashed, secondary_buffer, is_playing, is_paused, should_stop,
                 pending_samples, write_cursor, completion_callback, callback_fired,
                 total_samples_processed, buffer_mutex, callback_mutex, hw_buffered,
                 since_write, estimated_remaining, sessions, pushed, invocations,
                 lastResult, escaped, m_should_quit, m_is_paused, m_advance_to_next,
                 m_stop_playback, m_timeout_active, m_current_song_duration,
                 m_current_song, m_current_index, m_songs, m_shuffled_songs,
                 m_is_shuffled, m_playlist_mutex, next_song, m_current_decoder,
                 decoder_left, decoder_eof, elapsed, to_elapsed, hotkeys, interrupted,
                 feeding, natural_exit, stopper, raced, last_call, last_song, platform>>

\* signal_eof: lock_guard lock(m_buffer_mutex); check_completion()
MockSignalEofLock(c) ==
    /\ ~crashed
    /\ pc[c] = "mk_se_lock"
    /\ buffer_mutex = NoThread
    /\ buffer_mutex' = c
    /\ Goto(c, "mk_check")
    /\ UNCHANGED <<crashed, secondary_buffer, is_playing, is_paused, should_stop,
                 pending_samples, write_cursor, completion_callback, eof_signaled,
                 callback_fired, total_samples_processed, callback_mutex, hw_buffered,
                 since_write, estimated_remaining, sessions, pushed, invocations,
                 lastResult, escaped, m_should_quit, m_is_paused, m_advance_to_next,
                 m_stop_playback, m_timeout_active, m_current_song_duration,
                 m_current_song, m_current_index, m_songs, m_shuffled_songs,
                 m_is_shuffled, m_playlist_mutex, next_song, m_current_decoder,
                 decoder_left, decoder_eof, elapsed, to_elapsed, hotkeys, interrupted,
                 feeding, natural_exit, stopper, raced, last_call, last_song, platform>>

\* drain_all_buffers: lock m_buffer_mutex; m_pending_samples.clear(); check_completion()
MockDrainAllBuffers(c) ==
    /\ ~crashed
    /\ pc[c] = "idle"
    /\ sessions >= 1
    /\ buffer_mutex = NoThread
    /\ buffer_mutex' = c
    /\ pending_samples' = 0
    /\ Goto(c, "mk_check")
    /\ UNCHANGED <<crashed, secondary_buffer, is_playing, is_paused, should_stop, write_cursor,
                 completion_callback, eof_signaled, callback_fired,
                 total_samples_processed, callback_mutex, hw_buffered, since_write,
                 estimated_remaining, sessions, pushed, invocations, lastResult,
                 escaped, m_should_quit, m_is_paused, m_advance_to_next,
                 m_stop_playback, m_timeout_active, m_current_song_duration,
                 m_current_song, m_current_index, m_songs, m_shuffled_songs,
                 m_is_shuffled, m_playlist_mutex, next_song, m_current_decoder,
                 decoder_left, decoder_eof, elapsed, to_elapsed, hotkeys, interrupted,
                 feeding, natural_exit, stopper, raced, last_call, last_song, platform>>

\* check_completion: lock_guard buffer_lock(m_buffer_mutex) by the thread that owns
\* the mutex.  Locking a std::mutex one owns is undefined: the thread blocks for
\* ever, the process is terminated, or the lock is granted again.
MockCheckCompletion(c) ==
    /\ ~crashed
    /\ pc[c] = "mk_check"
    /\ buffer_mutex = c
    /\ \E outcome \in {"blocks", "terminates", "granted"} :
         CASE outcome = "blocks" ->
                /\ Goto(c, "mk_blocked")
                /\ UNCHANGED <<crashed, buffer_mutex>>
           [] outcome = "terminates" ->
                /\ crashed' = TRUE
                /\ UNCHANGED <<pc, ret, buffer_mutex>>
           [] outcome = "granted" ->
                /\ UNCHANGED crashed
                /\ IF CompletionCondition(eof_signaled, pending_samples)
                     THEN /\ Goto(c, "mk_fire")
                          /\ UNCHANGED buffer_mutex
                     ELSE /\ Goto(c, "idle")
                          /\ buffer_mutex' = NoThread
    /\ UNCHANGED <<secondary_buffer, is_playing, is_paused, should_stop, pending_samples,
                 write_cursor, completion_callback, eof_signaled, callback_fired,
                 total_samples_processed, callback_mutex, hw_buffered, since_write,
                 estimated_remaining, sessions, pushed, invocations, lastResult,
                 escaped, m_should_quit, m_is_paused, m_advance_to_next,
                 m_stop_playback, m_timeout_active, m_current_song_duration,
                 m_current_song, m_current_index, m_songs, m_shuffled_songs,
                 m_is_shuffled, m_playlist_mutex, next_song, m_current_decoder,
                 decoder_left, decoder_eof, elapsed, to_elapsed, hotkeys, interrupted,
                 feeding, natural_exit, stopper, raced, last_call, last_song, platform>>

\* fire_completion_callback: lock m_callback_mutex, exchange, invoke
MockFireCompletionCallback(c) ==
    /\ ~crashed
    /\ pc[c] = "mk_fire"
    /\ callback_mutex = NoThread
    /\ callback_fired' = TRUE
    /\ IF ShouldInvoke(callback_fired, completion_callback)
         THEN /\ callback_mutex' = c
              /\ invocations' = invocations + 1
              /\ lastResult' = "SUCCESS"
              /\ Goto(c, "mk_cb")
              /\ UNCHANGED buffer_mutex
         ELSE /\ buffer_mutex' = NoThread
              /\ Goto(c, "idle")
              /\ UNCHANGED <<callback_mutex, invocations, lastResult>>
    /\ UNCHANGED <<crashed, secondary_buffer, is_playing, is_paused, should_stop,
                 pending_samples, write_cursor, completion_callback, eof_signaled,
                 total_samples_processed, hw_buffered, since_write, estimated_remaining,
                 sessions, pushed, escaped, m_should_quit, m_is_paused,
                 m_advance_to_next, m_stop_playback, m_timeout_active,
                 m_current_song_duration, m_current_song, m_current_index, m_songs,
                 m_shuffled_songs, m_is_shuffled, m_playlist_mutex, next_song,
                 m_current_decoder, decoder_left, decoder_eof, elapsed, to_elapsed,
                 hotkeys, interrupted, feeding, natural_exit, stopper, raced, last_call,
                 last_song, platform>>

\* m_completion_callback(result) returns or throws; the mock has no try block, so
\* an exception unwinds the lock_guards and leaves signal_eof / drain_all_buffers
MockCallbackReturn(c) ==
    /\ ~crashed
    /\ pc[c] = "mk_cb"
    /\ \E throws \in BOOLEAN : escaped' = (escaped \/ throws)
    /\ callback_mutex' = NoThread
    /\ buffer_mutex' = NoThread
    /\ Goto(c, "idle")
    /\ UNCHANGED <<crashed, secondary_buffer, is_playing, is_paused, should_stop,
                 pending_samples, write_cursor, completion_callback, eof_signaled,
                 callback_fired, total_samples_processed, hw_buffered, since_write,
                 estimated_remaining, sessions, pushed, invocations, lastResult,
                 m_should_quit, m_is_paused, m_advance_to_next, m_stop_playback,
                 m_timeout_active, m_current_song_duration, m_current_song,
                 m_current_index, m_songs, m_shuffled_songs, m_is_shuffled,
                 m_playlist_mutex, next_song, m_current_decoder, decoder_left,
                 decoder_eof, elapsed, to_elapsed, hotkeys, interrupted, feeding,
                 natural_exit, stopper, raced, last_call, last_song, platform>>

\* set_completion_callback(lambda)
MockRegister ==
    /\ ~crashed
    /\ pc["ctl"] = "ctl_idle"
    /\ completion_callback = "null"
    /\ SetCompletionCallback("test")
    /\ UNCHANGED <<pc, ret>>
    /\ UNCHANGED <<crashed, secondary_buffer, is_playing, is_paused, should_stop,
                 pending_samples, write_cursor, eof_signaled, callback_fired,
                 total_samples_processed, buffer_mutex, callback_mutex, hw_buffered,
                 since_write, estimated_remaining, sessions, pushed, invocations,
                 lastResult, escaped, m_should_quit, m_is_paused, m_advance_to_next,
                 m_stop_playback, m_timeout_active, m_current_song_duration,
                 m_current_song, m_current_index, m_songs, m_shuffled_songs,
                 m_is_shuffled, m_playlist_mutex, next_song, m_current_decoder,
                 decoder_left, decoder_eof, elapsed, to_elapsed, hotkeys, interrupted,
                 feeding, natural_exit, stopper, raced, last_call, last_song, platform>>

\* start(): m_eof_signaled = false; m_callback_fired = false; counter = 0
MockStart ==
    /\ ~crashed
    /\ pc["ctl"] = "ctl_idle"
    /\ \A c \in Clients : pc[c] = "idle"
    /\ sessions < MaxSessions
    /\ sessions' = sessions + 1
    /\ eof_signaled' = FALSE
    /\ callback_fired' = FALSE
    /\ total_samples_processed' = 0
    /\ pushed' = 0
    /\ invocations' = 0
    /\ UNCHANGED <<pc, ret>>
    /\ UNCHANGED <<crashed, secondary_buffer, is_playing, is_paused, should_stop,
                 pending_samples, write_cursor, completion_callback, buffer_mutex,
                 callback_mutex, hw_buffered, since_write, estimated_remaining,
                 lastResult, escaped, m_should_quit, m_is_paused, m_advance_to_next,
                 m_stop_playback, m_timeout_active, m_current_song_duration,
                 m_current_song, m_current_index, m_songs, m_shuffled_songs,
                 m_is_shuffled, m_playlist_mutex, next_song, m_current_decoder,
                 decoder_left, decoder_eof, elapsed, to_elapsed, hotkeys, interrupted,
                 feeding, natural_exit, stopper, raced, last_call, last_song, platform>>

\* stop(): lock m_callback_mutex; m_completion_callback = nullptr
MockStop ==
    /\ ~crashed
    /\ pc["ctl"] = "ctl_idle"
    /\ sessions >= 1
    /\ completion_callback # "null"
    /\ SetCompletionCallback("null")
    /\ UNCHANGED <<pc, ret>>
    /\ UNCHANGED <<crashed, secondary_buffer, is_playing, is_paused, should_stop,
                 pending_samples, write_cursor, eof_signaled, callback_fired,
                 total_samples_processed, buffer_mutex, callback_mutex, hw_buffered,
                 since_write, estimated_remaining, sessions, pushed, invocations,
                 lastResult, escaped, m_should_quit, m_is_paused, m_advance_to_next,
                 m_stop_playback, m_timeout_active, m_current_song_duration,
                 m_current_song, m_current_index, m_songs, m_shuffled_songs,
                 m_is_shuffled, m_playlist_mutex, next_song, m_current_decoder,
                 decoder_left, decoder_eof, elapsed, to_elapsed, hotkeys, interrupted,
                 feeding, natural_exit, stopper, raced, last_call, last_song, platform>>

MockNext ==
    \/ \E c \in Clients :
         \/ MockWriteSamples(c)
         \/ MockSignalEof(c)
         \/ MockSignalEofLock(c)
         \/ MockDrainAllBuffers(c)
         \/ MockCheckCompletion(c)
         \/ MockFireCompletionCallback(c)
         \/ MockCallbackReturn(c)
    \/ MockRegister
    \/ MockStart
    \/ MockStop

MockSpec == EngineInit /\ [][MockNext]_vars

(***************************************************************************)
(* ShufflePlaylist (src/src/playlist.cpp) on its own: one caller makes     *)
(* add_song, next, previous, shuffle, reset and clear calls on a playlist  *)
(* that starts empty.  The same file may be added more than once.          *)
(***************************************************************************)
\* longest playlist built in PlaylistSpec
MaxPlaylist == 3

\* ShufflePlaylist::empty
PlaylistEmpty == Len(m_songs) = 0

\* ShufflePlaylist::current: the song or 0 for nullptr
PlaylistCurrent ==
    IF PlaylistEmpty \/ m_current_index >= Len(ActivePlaylist)
      THEN 0 ELSE ActivePlaylist[m_current_index + 1]

\* an exchange that overwrites position i and leaves position j alone
CopyAt(s, i, j) == [s EXCEPT ![i + 1] = s[j + 1]]

\* std::swap(s[i], s[j]), positions counted from 0
SwapAt(s, i, j) == [s EXCEPT ![i + 1] = s[j + 1], ![j + 1] = s[i + 1]]

\* fisher_yates_shuffle: the loop from position i down to 1, every outcome of dist
RECURSIVE FisherYatesFrom(_, _)
FisherYatesFrom(s, i) ==
    IF i <= 0 THEN {s}
    ELSE UNION {FisherYatesFrom(SwapAt(s, i, j), i - 1) : j \in 0..i}

\* add_song
CallAddSong ==
    /\ Len(m_songs) < MaxPlaylist
    /\ \E song \in Songs :
         /\ m_songs' = Append(m_songs, song)
         /\ IF m_is_shuffled
              THEN LET pushed_back == Append(m_shuffled_songs, song)
                       size == Len(pushed_back)
                   IN IF size > 1
                        THEN \E swap_index \in 0..(size - 1) :
                               m_shuffled_songs' = SwapAt(pushed_back, size - 1, swap_index)
                        ELSE m_shuffled_songs' = pushed_back
              ELSE UNCHANGED m_shuffled_songs
    /\ last_call' = "add_song"
    /\ last_song' = 0
    /\ UNCHANGED <<pc, ret, crashed, secondary_buffer, is_playing, is_paused, should_stop,
                 pending_samples, write_cursor, completion_callback, eof_signaled,
                 callback_fired, total_samples_processed, buffer_mutex, callback_mutex,
                 hw_buffered, since_write, estimated_remaining, sessions, pushed,
                 invocations, lastResult, escaped, m_should_quit, m_is_paused,
                 m_advance_to_next, m_stop_playback, m_timeout_active,
                 m_current_song_duration, m_current_song, m_current_index,
                 m_is_shuffled, m_playlist_mutex, next_song, m_current_decoder,
                 decoder_left, decoder_eof, elapsed, to_elapsed, hotkeys, interrupted,
                 feeding, natural_exit, stopper, raced, platform>>

\* next
CallNext ==
    /\ last_call' = "next"
    /\ IF PlaylistEmpty
         THEN /\ last_song' = 0
              /\ UNCHANGED m_current_index
         ELSE /\ m_current_index' = NextIndex(m_current_index, Len(ActivePlaylist))
              /\ last_song' = ActivePlaylist[m_current_index' + 1]
    /\ UNCHANGED <<pc, ret, crashed, secondary_buffer, is_playing, is_paused, should_stop,
                 pending_samples, write_cursor, completion_callback, eof_signaled,
                 callback_fired, total_samples_processed, buffer_mutex, callback_mutex,
                 hw_buffered, since_write, estimated_remaining, sessions, pushed,
                 invocations, lastResult, escaped, m_should_quit, m_is_paused,
                 m_advance_to_next, m_stop_playback, m_timeout_active,
                 m_current_song_duration, m_current_song, m_songs, m_shuffled_songs,
                 m_is_shuffled, m_playlist_mutex, next_song, m_current_decoder,
                 decoder_left, decoder_eof, elapsed, to_elapsed, hotkeys, interrupted,
                 feeding, natural_exit, stopper, raced, platform>>

\* previous
CallPrevious ==
    /\ last_call' = "previous"
    /\ IF PlaylistEmpty
         THEN /\ last_song' = 0
              /\ UNCHANGED m_current_index
         ELSE /\ m_current_index' = PreviousIndex(m_current_index, Len(ActivePlaylist))
              /\ last_song' = ActivePlaylist[m_current_index' + 1]
    /\ UNCHANGED <<pc, ret, crashed, secondary_buffer, is_playing, is_paused, should_stop,
                 pending_samples, write_cursor, completion_callback, eof_signaled,
                 callback_fired, total_samples_processed, buffer_mutex, callback_mutex,
                 hw_buffered, since_write, estimated_remaining, sessions, pushed,
                 invocations, lastResult, escaped, m_should_quit, m_is_paused,
                 m_advance_to_next, m_stop_playback, m_timeout_active,
                 m_current_song_duration, m_current_song, m_songs, m_shuffled_songs,
                 m_is_shuffled, m_playlist_mutex, next_song, m_current_decoder,
                 decoder_left, decoder_eof, elapsed, to_elapsed, hotkeys, interrupted,
                 feeding, natural_exit, stopper, raced, platform>>

\* shuffle
CallShuffle ==
    /\ last_call' = "shuffle"
    /\ last_song' = 0
    /\ IF PlaylistEmpty
         THEN UNCHANGED <<m_shuffled_songs, m_current_index, m_is_shuffled>>
         ELSE /\ m_shuffled_songs' \in FisherYatesFrom(m_songs, Len(m_songs) - 1)
              /\ m_current_index' = 0
              /\ m_is_shuffled' = TRUE
    /\ UNCHANGED <<pc, ret, crashed, secondary_buffer, is_playing, is_paused, should_stop,
                 pending_samples, write_cursor, completion_callback, eof_signaled,
                 callback_fired, total_samples_processed, buffer_mutex, callback_mutex,
                 hw_buffered, since_write, estimated_remaining, sessions, pushed,
                 invocations, lastResult, escaped, m_should_quit, m_is_paused,
                 m_advance_to_next, m_stop_playback, m_timeout_active,
                 m_current_song_duration, m_current_song, m_songs, m_playlist_mutex,
                 next_song, m_current_decoder, decoder_left, decoder_eof, elapsed,
                 to_elapsed, hotkeys, interrupted, feeding, natural_exit, stopper,
                 raced, platform>>

\* reset
CallReset ==
    /\ last_call' = "reset"
    /\ last_song' = 0
    /\ m_current_index' = 0
    /\ m_is_shuffled' = FALSE
    /\ m_shuffled_songs' = <<>>
    /\ UNCHANGED <<pc, ret, crashed, secondary_buffer, is_playing, is_paused, should_stop,
                 pending_samples, write_cursor, completion_callback, eof_signaled,
                 callback_fired, total_samples_processed, buffer_mutex, callback_mutex,
                 hw_buffered, since_write, estimated_remaining, sessions, pushed,
                 invocations, lastResult, escaped, m_should_quit, m_is_paused,
                 m_advance_to_next, m_stop_playback, m_timeout_active,
                 m_current_song_duration, m_current_song, m_songs, m_playlist_mutex,
                 next_song, m_current_decoder, decoder_left, decoder_eof, elapsed,
                 to_elapsed, hotkeys, interrupted, feeding, natural_exit, stopper,
                 raced, platform>>

\* a clear() that empties both lists and leaves m_current_index alone
CallClearKeepIndex ==
    /\ last_call' = "clear"
    /\ last_song' = 0
    /\ m_songs' = <<>>
    /\ m_shuffled_songs' = <<>>
    /\ m_is_shuffled' = FALSE
    /\ UNCHANGED m_current_index
    /\ UNCHANGED <<pc, ret, crashed, secondary_buffer, is_playing, is_paused, should_stop,
                 pending_samples, write_cursor, completion_callback, eof_signaled,
                 callback_fired, total_samples_processed, buffer_mutex, callback_mutex,
                 hw_buffered, since_write, estimated_remaining, sessions, pushed,
                 invocations, lastResult, escaped, m_should_quit, m_is_paused,
                 m_advance_to_next, m_stop_playback, m_timeout_active,
                 m_current_song_duration, m_current_song, m_playlist_mutex, next_song,
                 m_current_decoder, decoder_left, decoder_eof, elapsed, to_elapsed,
                 hotkeys, interrupted, feeding, natural_exit, stopper, raced, platform>>

\* clear
CallClear ==
    /\ last_call' = "clear"
    /\ last_song' = 0
    /\ m_songs' = <<>>
    /\ m_shuffled_songs' = <<>>
    /\ m_current_index' = 0
    /\ m_is_shuffled' = FALSE
    /\ UNCHANGED <<pc, ret, crashed, secondary_buffer, is_playing, is_paused, should_stop,
                 pending_samples, write_cursor, completion_callback, eof_signaled,
                 callback_fired, total_samples_processed, buffer_mutex, callback_mutex,
                 hw_buffered, since_write, estimated_remaining, sessions, pushed,
                 invocations, lastResult, escaped, m_should_quit, m_is_paused,
                 m_advance_to_next, m_stop_playback, m_timeout_active,
                 m_current_song_duration, m_current_song, m_playlist_mutex, next_song,
                 m_current_decoder, decoder_left, decoder_eof, elapsed, to_elapsed,
                 hotkeys, interrupted, feeding, natural_exit, stopper, raced, platform>>

PlaylistStep ==
    \/ CallAddSong
    \/ CallNext
    \/ CallPrevious
    \/ CallShuffle
    \/ CallReset
    \/ CallClear

\* ShufflePlaylist::ShufflePlaylist()
PlaylistInit ==
    /\ InitCommon
    /\ platform = "windows"
    /\ pc = [t \in Threads |-> "none"]
    /\ m_songs = <<>>
    /\ m_shuffled_songs = <<>>
    /\ m_is_shuffled = FALSE
    /\ last_call = "none"
    /\ last_song = 0

PlaylistSpec == PlaylistInit /\ [][PlaylistStep]_vars

(***************************************************************************)
(* The reindexing thread of the player                                     *)
(***************************************************************************)

\* reindex_directory when the scan finds a different number of files: under
\* m_playlist_mutex, clear(), add_song for every file found, shuffle().  The
\* elements of the rebuilt playlist are new objects, numbered after the loaded
\* ones; m_current_song is not assigned.
ReindexDirectory ==
    /\ ~crashed
    /\ pc["main"] \notin {"none", "m_done"}
    /\ ~m_should_quit
    /\ m_playlist_mutex = NoThread
    /\ \A i \in 1..Len(m_songs) : m_songs[i] <= NumSongs
    /\ \E found \in 1..MaxPlaylist :
         /\ found # Len(m_songs)
         /\ m_songs' = [i \in 1..found |-> NumSongs + i]
         /\ m_shuffled_songs' \in FisherYatesFrom(m_songs', found - 1)
    /\ m_current_index' = 0
    /\ m_is_shuffled' = TRUE
    /\ last_call' = "shuffle"
    /\ last_song' = 0
    /\ UNCHANGED <<pc, ret>>
    /\ UNCHANGED <<crashed, secondary_buffer, is_playing, is_paused, should_stop,
                 pending_samples, write_cursor, completion_callback, eof_signaled,
                 callback_fired, total_samples_processed, buffer_mutex, callback_mutex,
                 hw_buffered, since_write, estimated_remaining, sessions, pushed,
                 invocations, lastResult, escaped, m_should_quit, m_is_paused,
                 m_advance_to_next, m_stop_playback, m_timeout_active,
                 m_current_song_duration, m_current_song, m_playlist_mutex, next_song,
                 m_current_decoder, decoder_left, decoder_eof, elapsed, to_elapsed,
                 hotkeys, interrupted, feeding, natural_exit, stopper, raced, platform>>

\* the player left alone while the music directory changes
ReindexNext ==
    \/ AutoNext
    \/ ReindexDirectory

ReindexSpec == Init /\ [][ReindexNext]_vars

(***************************************************************************)
(* Properties                                                              *)
(***************************************************************************)

\* a thread is inside the completion callback
InCallback(t) == pc[t] \in {"cb_test", "cb_timeout", "cb_advance"}

\* C1: within one engine session (start() to the next start()) the registered
\* completion callback is invoked at most once whatever the interleaving of
\* signal_eof() calls and drain ticks, and exactly once as soon as the
\* completion condition has been observed in a running session.
C1_SingleFire ==
    /\ invocations <= 1
    /\ (is_playing /\ callback_fired) => invocations = 1

\* a second thread reaches fire_completion_callback after the callback ran once
C1_Witness ==
    /\ invocations = 1
    /\ callback_fired
    /\ \E t \in Threads : pc[t] = "fire_lock"

\* C2: the completion callback runs only with end-of-stream signaled and the
\* pending queue empty, both observed by a thread that holds buffer_mutex from
\* the check to the end of the callback; while samples are pending in a session
\* whose queue has not been empty since signal_eof, nothing is invoked.
C2_NoFireWhilePending ==
    \A t \in Threads :
      (pc[t] = "fire_lock" \/ InCallback(t)) =>
        /\ buffer_mutex = t
        /\ eof_signaled
        /\ pending_samples = 0

\* end-of-stream is signaled, every signal_eof() call has returned, samples are
\* still pending and the callback has not been invoked
C2_Witness ==
    /\ eof_signaled
    /\ pending_samples > 0
    /\ ~callback_fired
    /\ invocations = 0
    /\ pc["eng"] = "el_update"
    /\ \A c \in Clients : pc[c] = "idle"

\* C3: without a signal_eof() call in the current session the completion
\* callback is never invoked, however often the queue becomes empty.
C3_NoFireWithoutEof ==
    /\ invocations > 0 => eof_signaled
    /\ \A t \in Threads : InCallback(t) => eof_signaled

\* all samples of the session were written and drained, the queue is empty, a
\* drain tick is about to look at it, and signal_eof() was never called
C3_Witness ==
    /\ is_playing
    /\ ~eof_signaled
    /\ pushed = MaxPushed
    /\ pending_samples = 0
    /\ total_samples_processed > 0
    /\ pc["eng"] = "el_update"
    /\ invocations = 0

\* C4: when stop_current_song() returns to next_track()/previous_track(),
\* m_advance_to_next is false: no completion of the interrupted session (engine
\* callback, duration path, timeout thread) has raised an advance request after
\* the reset at the start of stop_current_song().
C4_NoAdvanceAfterManualStop ==
    (pc["hk"] = "nt_assign" /\ ~raced) => ~m_advance_to_next

\* C5: in a run without next/previous/quit, when the main loop consumes an
\* advance request while a track of known duration D > 0 is being fed, the
\* time elapsed since m_playback_start_time is at least D.
C5_AdvanceNotBeforeDuration ==
    (/\ pc["main"] = "hta_lock"
     /\ ~raced
     /\ ~interrupted
     /\ feeding
     /\ m_current_song_duration > 0)
      => elapsed >= m_current_song_duration

\* C6: a track of unknown duration (0) whose decoder has reached end of file
\* eventually has end-of-stream signaled to the engine: it is not fed silence
\* forever.
C6_UnknownDurationSignalsEof ==
    (/\ pc["pb"] = "pb_loop"
     /\ decoder_eof
     /\ m_current_song_duration = 0
     /\ ~m_stop_playback)
      ~> (eof_signaled \/ crashed)

\* C7: when the playback thread has finished a track on its own, end-of-stream
\* is signaled, samples are still pending and no completion has fired, the
\* Timeout Guard is armed (so that it can fire after its 3 second budget).
C7_TimeoutGuardArmedOnStall ==
    (/\ pc["pb"] = "pb_done"
     /\ natural_exit
     /\ ~raced
     /\ ~interrupted
     /\ eof_signaled
     /\ pending_samples > 0
     /\ ~callback_fired)
      => (m_timeout_active \/ pc["to"] = "to_sleep")

\* C8: the timeout thread goes on to set m_advance_to_next only for a session
\* whose playback thread left its loop with the Manual-Stop Flag clear, and only
\* while that flag is clear.
C8_TimeoutStandsDown ==
    pc["to"] = "to_advance" => (natural_exit /\ ~m_stop_playback)

\* C9: while stop_current_song() is in progress no thread takes a step that
\* begins a Track Session: opening the decoder, starting the engine or
\* starting the playback thread.
C9_NoSessionBeginsDuringStop ==
    [][stopper # NoThread =>
         \A t \in {"main", "hk"} :
           pc[t] \in {"pcs_open", "pcs_start", "pcs_thread"} => pc'[t] = pc[t]]_vars

\* C10: in a run without next/previous/quit, when handle_track_advance() has
\* stopped the finished track and started the next one, whose playback thread
\* has not run yet, no advance request is set.
C10_NoSecondAdvance ==
    (/\ pc["main"] = "hta_unlock"
     /\ pc["pb"] = "pb_begin"
     /\ ~raced
     /\ ~interrupted)
      => ~m_advance_to_next


(***************************************************************************)
(* Error handling, locking, termination and buffering                      *)
(***************************************************************************)

\* C11: a handler that throws is caught where it is fired, so no exception ever
\* reaches the caller of signal_eof / drain_all_buffers or the drain thread.
C11_ExceptionContained == ~escaped

\* C12: no thread holds buffer_mutex and callback_mutex of the engine at once.
C12_OneLockAtATime ==
    \A t \in Threads : ~(buffer_mutex = t /\ callback_mutex = t)

\* C13: no operation blocks for ever; a join is made only on a thread whose stop
\* signal is set: while a thread waits in the join of the engine's stop() the drain
\* thread sees should_stop, and while a thread waits in the join of
\* stop_current_song() or shutdown() the playback thread sees its stop flag.
C13_JoinedThreadIsSignalled ==
    /\ \A t \in Threads :
         (pc[t] = "stop_join" /\ pc["eng"] \notin {"none", "el_exit"}) => should_stop
    /\ \A t \in Threads :
         (pc[t] = "scs_join_pb" /\ pc["pb"] \notin {"none", "pb_done"}) => m_stop_playback
    /\ (pc["main"] = "sd_join_pb" /\ pc["pb"] \notin {"none", "pb_done"}) => m_should_quit

\* run() waits in its loop although no thread exists that could raise an advance
\* request: no playback thread, no drain thread, no timeout thread
NothingPlaying ==
    /\ pc["main"] = "m_loop"
    /\ pc["hk"] = "hk_idle"
    /\ pc["pb"] = "none"
    /\ pc["eng"] = "none"
    /\ pc["to"] \in {"none", "to_done"}
    /\ ~m_advance_to_next
    /\ ~m_should_quit

\* C14: a track that fails to open, initialize, start or decode is skipped: the
\* player is never left waiting on it with nothing playing.
C14_FailedTrackIsSkipped == ~NothingPlaying

\* the drain thread and every thread inside an engine call keep being scheduled,
\* and the position query and the lock of a drain tick do not fail for ever
EngineFairness ==
    /\ SF_vars(EngineNext /\ pc'["eng"] # pc["eng"])
    /\ SF_vars(UpdateBuffer /\ pc'["eng"] = "fire_lock")
    /\ \A c \in Clients : SF_vars(EngineNext /\ pc[c] # "idle" /\ pc'[c] # pc[c])

\* the engine driven by clients and a controller, under fair scheduling
EngineSpecFair == EngineInit /\ [][EngineNext]_vars /\ EngineFairness

\* the engine driven by one producer thread and a controller, as the demo program
\* and the player drive it
ProducerNext ==
    \/ EngineStep
    \/ \E t \in Threads : TestCallbackReturn(t)
    \/ ClientWrite("c1")
    \/ ClientSignalEof("c1")
    \/ CtlRegister
    \/ CtlStart
    \/ CtlStop
    \/ CtlPauseResume

\* the drain thread and the producer inside an engine call keep being scheduled,
\* and the position query and the lock of a drain tick do not fail for ever
ProducerFairness ==
    /\ SF_vars(ProducerNext /\ pc'["eng"] # pc["eng"])
    /\ SF_vars(UpdateBuffer /\ pc'["eng"] = "fire_lock")
    /\ SF_vars(ProducerNext /\ pc["c1"] # "idle" /\ pc'["c1"] # pc["c1"])

\* one producer and a controller on the engine, under fair scheduling
ProducerSpecFair == EngineInit /\ [][ProducerNext]_vars /\ ProducerFairness

C17_FreshSession ==
    pc["pb"] = "pb_begin" =>
      /\ ~callback_fired
      /\ ~eof_signaled
      /\ total_samples_processed = 0
      /\ pending_samples = 0

\* the playback thread of the track after a naturally completed one is about to feed
C17_Witness ==
    /\ pc["pb"] = "pb_begin"
    /\ m_current_index = 1
    /\ ~interrupted
    /\ is_playing
    /\ completion_callback = "handler"

\* C18: the feed loop paces itself against the depth of the pending queue, so
\* the queue never fills up to the cap (MaxPending) at which the model has to
\* hold a write back; the code has no such cap and no depth check.
C18_QueueBelowCap == pending_samples < MaxPending

\* the bytes a drain tick wrote into the hardware buffer, read off the write cursor
BytesWritten == (write_cursor' + BufferBytes - write_cursor) % BufferBytes

\* C19: a drain tick that writes removes from the queue exactly the samples it
\* copied, min(queue length, free region), and never more than the queue held.
C19_DrainRemovesWhatItCopied ==
    [][(pc["eng"] = "el_update" /\ write_cursor' # write_cursor)
         => /\ ~crashed'
            /\ pending_samples' =
                 pending_samples - Min(pending_samples, BytesWritten \div SampleBytes)]_vars

\* C20: the samples-processed counter never exceeds the number of samples pushed
\* in the session, and a completion that fires after everything has drained
\* reports exactly the number pushed.
C20_ProcessedWithinPushed ==
    /\ total_samples_processed <= pushed
    /\ \A t \in Threads :
         (pc[t] = "cb_test" /\ pushed <= MaxProcessed) => total_samples_processed = pushed

(***************************************************************************)
(* Properties C21 - C30                                                    *)
(***************************************************************************)

\* the drain thread is at the return that follows a failed sink call
AtFault(l) == l \in {"el_fault", "al_fault"}

\* C21: a drain tick on which the sink reports an underrun, or the position
\* query, the lock or the write fails, writes nothing, leaves the pending queue
\* and the samples-processed counter unchanged, fires no completion and does
\* not end the process; the drain thread then goes back to its loop, where the
\* next tick finds the same queue.
C21_FailedTickIsNotFatal ==
    /\ [][(AtFault(pc'["eng"]) /\ ~AtFault(pc["eng"]))
            => /\ UNCHANGED <<pending_samples, total_samples_processed, write_cursor,
                              invocations, callback_fired, buffer_mutex>>
               /\ ~crashed']_vars
    /\ [][(AtFault(pc["eng"]) /\ pc'["eng"] # pc["eng"])
            => pc'["eng"] \in {"el_loop", "al_loop"}]_vars

\* an underrun or a failed write hits a tick in mid-drain, after end-of-stream
C21_Witness ==
    /\ platform = "linux"
    /\ pc["eng"] = "al_fault"
    /\ pending_samples > 0
    /\ total_samples_processed > 0
    /\ eof_signaled

\* C22: a track that ends because a decode failed in mid-stream is reported to
\* the player with a result code other than SUCCESS: once the completion
\* callback of such a track has run, the result it delivered is not SUCCESS.
C22_DecodeErrorIsReported ==
    (m_current_decoder = "error" /\ invocations > 0) => lastResult # "SUCCESS"

\* C23: a Timeout Guard that was cancelled (m_timeout_active cleared by
\* stop_current_song() or by the completion handler) or superseded never raises
\* an advance request: the step of the timeout thread that sets
\* m_advance_to_next is taken only while the guard is still active.
C23_CancelledTimerStaysSilent ==
    [][(pc["to"] = "to_advance" /\ pc'["to"] = "to_deactivate") => m_timeout_active]_vars

\* DirectSoundEngine::is_playing()
IsPlaying == is_playing /\ ~is_paused

\* C24: is_playing() is true after every successful start(), whatever calls
\* were made in earlier sessions.
C24_PlayingAfterStart ==
    [][(pc["eng"] = "none" /\ pc'["eng"] = "el_loop") => IsPlaying']_vars

C26_PreviousAtFirstStays ==
    [][(last_call' = "previous" /\ ~PlaylistEmpty /\ m_current_index = 0)
         => /\ m_current_index' = 0
            /\ last_song' = PlaylistCurrent]_vars

\* occurrences of song x in the list s
Count(s, x) == Cardinality({i \in DOMAIN s : s[i] = x})

SameSongs(a, b) == \A x \in Songs : Count(a, x) = Count(b, x)

\* the songs returned by current() and then k - 1 calls of next()
RECURSIVE Walk(_, _)
Walk(index, k) ==
    IF k = 0 THEN <<>>
    ELSE <<ActivePlaylist[index + 1]>> \o Walk(NextIndex(index, Len(ActivePlaylist)), k - 1)

\* C27: shuffle() leaves m_songs, and with it size(), unchanged; after it one
\* cycle of next() calls from current() visits the songs of m_songs, each as
\* often as it occurs there; and the shuffled list stays a rearrangement of
\* m_songs under every later call.
C27_ShufflePreservesContents ==
    /\ [][last_call' = "shuffle" => m_songs' = m_songs]_vars
    /\ []((last_call = "shuffle" /\ ~PlaylistEmpty)
            => /\ m_is_shuffled
               /\ SameSongs(Walk(m_current_index, Len(m_songs)), m_songs))
    /\ [](m_is_shuffled => /\ Len(m_shuffled_songs) = Len(m_songs)
                           /\ SameSongs(m_shuffled_songs, m_songs))

\* shuffle() has rearranged a longest playlist
C27_Witness ==
    /\ last_call = "shuffle"
    /\ Len(m_songs) = MaxPlaylist
    /\ m_shuffled_songs # m_songs

\* the hotkey thread is between the two stores of toggle_pause()
InTogglePause == pc["hk"] \in {"tp_paused", "tp_resumed"}

C29_NoCompletionWhilePaused ==
    [][(/\ pc["pb"] = "pb_loop"
        /\ pc'["pb"] = "pb_post"
        /\ ~m_stop_playback
        /\ ~m_should_quit
        /\ m_current_decoder # "null")
         => ~m_is_paused]_vars

\* the decoder is at end of file: it has reported it, or its next decode() will
DecoderAtEof == decoder_eof \/ (m_current_decoder = "open" /\ decoder_left = 0)

C31_WaitsForBufferedAudio ==
    /\ [][(/\ platform = "linux"
           /\ \E t \in Threads : /\ pc[t] \in {"al_update", "al_se_check"}
                                 /\ pc'[t] = "fire_lock")
            => since_write >= estimated_remaining]_vars
    /\ [][(platform = "linux" /\ hw_buffered' > hw_buffered)
            => estimated_remaining' = PlayingTime(hw_buffered')]_vars

\* C31 amended: the ALSA engine passes its completion check no earlier than
\* estimated_remaining_ms after its last write to the device; every write
\* restarts that clock and sets the estimate to the playing time of the whole
\* ring buffer counted in samples, which is never less than the playing time
\* of the audio the device holds.
C31_WaitsForWholeBuffer ==
    /\ [][(/\ platform = "linux"
           /\ \E t \in Threads : /\ pc[t] \in {"al_update", "al_se_check"}
                                 /\ pc'[t] = "fire_lock")
            => since_write >= estimated_remaining]_vars
    /\ [][(platform = "linux" /\ hw_buffered' > hw_buffered)
            => /\ since_write' = 0
               /\ estimated_remaining' = EstimatedRemaining
               /\ estimated_remaining' >= PlayingTime(hw_buffered')]_vars
    /\ [](platform = "linux" =>
            /\ estimated_remaining = 0 => hw_buffered = 0
            /\ estimated_remaining >= PlayingTime(hw_buffered))

\* the completion callback of an ALSA session ran after the session wrote
\* to the device and the estimate had passed
C31_Witness ==
    /\ platform = "linux"
    /\ invocations = 1
    /\ lastResult = "SUCCESS"
    /\ total_samples_processed > 0
    /\ estimated_remaining = EstimatedRemaining
    /\ since_write = EstimatedRemaining
    /\ sessions = 1

\* C32: once end-of-stream is signaled while the engine runs unpaused, the
\* drain ticks eventually empty the pending queue, whatever its length,
\* unless the engine is stopped or paused first.
C32_QueueEventuallyEmpties ==
    (eof_signaled /\ pending_samples > 0 /\ is_playing /\ ~is_paused)
      ~> (pending_samples = 0 \/ ~is_playing \/ is_paused \/ crashed)

\* C33: play_current_song() assigns a new thread to m_playback_thread only when
\* the previous playback thread has been joined.
C33_OnePlaybackThread ==
    [][\A t \in {"main", "hk"} : PlayThread(t) => pc["pb"] = "none"]_vars

\* C34: after stop() has been called, the drain thread invokes a SUCCESS
\* completion callback only for a session whose queued samples were all
\* drained: stop() clearing
\* a non-empty queue of a session with end-of-stream signaled completes nothing.
C34_StopCompletesNothing ==
    [][(/\ invocations' > invocations
        /\ lastResult' = "SUCCESS"
        /\ callback_mutex' = "eng"
        /\ should_stop)
         => total_samples_processed >= Min(pushed, MaxProcessed)]_vars

\* C35: in a run where no hotkey raced with run()'s first play_current_song(),
\* once the engine's stop() has set should_stop the playback thread appends
\* no samples to the queue and does not store the end-of-stream flag.
C35_QuiescentBeforeEngineStop ==
    [][(~raced /\ should_stop)
         => /\ ~(/\ pc["pb"] = "pb_loop"
                 /\ pc'["eng"] = pc["eng"]
                 /\ pending_samples' > pending_samples)
            /\ ~(pc["pb"] = "se_store" /\ eof_signaled' # eof_signaled)]_vars

\* C36: when shutdown() has returned, the playback thread and the timeout
\* thread have been joined and no such thread exists.
C36_AllThreadsJoined ==
    pc["main"] = "m_done" => (pc["pb"] = "none" /\ pc["to"] = "none")

\* C37: while the playback thread runs its loop, m_current_song is null or an
\* element of the current playlist.
C37_CurrentSongInPlaylist ==
    (pc["pb"] = "pb_loop" /\ m_current_song # 0)
      => \E i \in 1..Len(ActivePlaylist) : ActivePlaylist[i] = m_current_song

\* C38: in the MockAudioEngine no thread enters check_completion(), which
\* locks m_buffer_mutex, while it owns that mutex, and no call of signal_eof()
\* or drain_all_buffers() is blocked for ever.
C38_MockCallsReturn ==
    \A c \in Clients :
      /\ ~(pc[c] = "mk_check" /\ buffer_mutex = c)
      /\ pc[c] # "mk_blocked"

(***************************************************************************)
(* A controller that starts the engine before a callback is registered     *)
(***************************************************************************)

\* start() on an initialized engine whose callback is null (stop() cleared it)
CtlStartUnregistered ==
    /\ ~crashed
    /\ pc["ctl"] = "ctl_idle"
    /\ pc["eng"] = "none"
    /\ secondary_buffer
    /\ completion_callback = "null"
    /\ \A c \in Clients : pc[c] = "idle"
    /\ sessions < MaxSessions
    /\ sessions' = sessions + 1
    /\ EngineStart("ctl", "ctl_idle")
    /\ UNCHANGED <<secondary_buffer, is_paused, pending_samples, write_cursor,
                 completion_callback, buffer_mutex, callback_mutex, hw_buffered,
                 since_write, estimated_remaining, lastResult, escaped, m_should_quit,
                 m_is_paused, m_advance_to_next, m_stop_playback, m_timeout_active,
                 m_current_song_duration, m_current_song, m_current_index, m_songs,
                 m_shuffled_songs, m_is_shuffled, m_playlist_mutex, next_song,
                 m_current_decoder, decoder_left, decoder_eof, elapsed, to_elapsed,
                 hotkeys, interrupted, feeding, natural_exit, stopper, raced, last_call,
                 last_song, platform>>

\* set_completion_callback(counting lambda) while the engine runs
CtlRegisterLate ==
    /\ ~crashed
    /\ pc["ctl"] = "ctl_idle"
    /\ pc["eng"] # "none"
    /\ completion_callback = "null"
    /\ SetCompletionCallback("test")
    /\ UNCHANGED <<pc, ret, crashed, secondary_buffer, is_playing, is_paused, should_stop,
                 pending_samples, write_cursor, eof_signaled, callback_fired,
                 total_samples_processed, buffer_mutex, callback_mutex, hw_buffered,
                 since_write, estimated_remaining, sessions, pushed, invocations,
                 lastResult, escaped, m_should_quit, m_is_paused, m_advance_to_next,
                 m_stop_playback, m_timeout_active, m_current_song_duration,
                 m_current_song, m_current_index, m_songs, m_shuffled_songs,
                 m_is_shuffled, m_playlist_mutex, next_song, m_current_decoder,
                 decoder_left, decoder_eof, elapsed, to_elapsed, hotkeys, interrupted,
                 feeding, natural_exit, stopper, raced, last_call, last_song, platform>>

LateNext ==
    \/ ProducerNext
    \/ CtlStartUnregistered
    \/ CtlRegisterLate

\* one producer and a controller that may register the callback in mid-session
LateSpec == EngineInit /\ [][LateNext]_vars

\* C39: fire_completion_callback sets callback_fired whether or not a callback
\* is registered, and invokes nothing when none is; once the flag is set with
\* no invocation made, no callback is invoked for the rest of the session,
\* also when one is registered later.
C39_FlagConsumedWithoutCallback ==
    /\ [][\A t \in Threads :
            (/\ pc[t] = "fire_lock"
             /\ pc'[t] # "fire_lock"
             /\ completion_callback = "null")
              => (callback_fired' /\ invocations' = invocations)]_vars
    /\ [][(callback_fired /\ invocations = 0 /\ sessions' = sessions)
            => invocations' = 0]_vars

\* the completion condition was met while no callback was registered; a
\* callback registered afterwards in the same session has not been invoked
\* although the drain thread keeps running on an empty queue
C39_Witness ==
    /\ callback_fired
    /\ invocations = 0
    /\ completion_callback = "test"
    /\ eof_signaled
    /\ pending_samples = 0
    /\ pc["eng"] = "el_update"
    /\ is_playing
    /\ ~is_paused

\* b is a reordering of a: some bijection of the positions carries a to b
IsPermutationOf(b, a) ==
    /\ Len(b) = Len(a)
    /\ \E p \in Permutations(1..Len(a)) : \A i \in 1..Len(a) : b[i] = a[p[i]]

\* C40: under every sequence of add_song, next, previous, shuffle, reset and
\* clear calls a non-empty playlist has m_current_index below size() and
\* current() returns a song, and in shuffled mode m_shuffled_songs is a
\* permutation of m_songs of the same length.
C40_PlaylistInvariants ==
    /\ ~PlaylistEmpty => (m_current_index < Len(m_songs) /\ PlaylistCurrent # 0)
    /\ m_is_shuffled => IsPermutationOf(m_shuffled_songs, m_songs)

\* previous() has wrapped to the last position of a longest playlist that was
\* shuffled and then rearranged again by add_song
C40_Witness ==
    /\ last_call = "previous"
    /\ m_is_shuffled
    /\ Len(m_songs) = MaxPlaylist
    /\ m_current_index = MaxPlaylist - 1
    /\ m_shuffled_songs # m_songs
====
